---------------------------- MODULE Spec2Model ----------------------------
(* A model of the tor-parse initiator: the circuit-ID allocator             *)
(* (CircuitIdTracker), the run of main over one Circuit (link handshake,    *)
(* CREATE_FAST, two EXTEND2 steps) and the key derivations behind it.       *)
(*                                                                          *)
(* A panic!() or a failed unwrap() ends the process: the model records it   *)
(* in `panic` and moves main to pc = "panicked", after which nothing runs.  *)
EXTENDS Integers, Sequences, FiniteSets, TLC

VARIABLES
    pc,             \* where main stands: the call it makes next
    used_circ_ids,  \* CircuitIdTracker.used_circ_ids
    retries,        \* get_new_circ_id: the loop counter `retries`
    alloc,          \* get_new_circ_id: the call in progress and its outcome
    returned_ids,   \* history: how many times each id has been returned
    circ_id,        \* Circuit.circ_id (NoCircuit before Circuit::new)
    responder_certs,\* Circuit.responder_certs
    circuit_keys,   \* Circuit.circuit_keys
    log,            \* history: the cells that crossed the TLS connection
    checks,         \* history: the checks made on what the peer sent
    panic,          \* the panic that ended the process, NoPanic otherwise
    decoded_certs,  \* history: the certs last handed to ResponderCerts::new
    authenticate_body, \* history: the body of the AUTHENTICATE cell built
    layers,         \* the relays of the circuit and the relay cell in flight
    auth_challenge, \* history: has_auth_type(..) of the AUTH_CHALLENGE read
    parser,         \* the TorParser and the event it handled last
    call,           \* the last call of a function of its own: input, result
    requests        \* circuits asking one tracker for an id, each its call

vars == <<pc, used_circ_ids, retries, alloc, returned_ids, circ_id,
          responder_certs, circuit_keys, log, checks, panic, decoded_certs,
          authenticate_body, layers, auth_challenge,
      parser, call, requests>>

---------------------------------------------------------------------------
(* Bounds.                                                                  *)

\* Width of a circuit ID in the model (u32 in the program).
IdBits == 3

---------------------------------------------------------------------------
(* Integer helpers.                                                         *)

RECURSIVE Pow2(_)
Pow2(n) == IF n = 0 THEN 1 ELSE 2 * Pow2(n - 1)

\* a | b on non-negative integers.
RECURSIVE BitOr(_, _)
BitOr(a, b) ==
    IF a = 0 THEN b
    ELSE IF b = 0 THEN a
    ELSE (IF (a % 2 = 1) \/ (b % 2 = 1) THEN 1 ELSE 0)
         + 2 * BitOr(a \div 2, b \div 2)

\* a & b on non-negative integers.
RECURSIVE BitAnd(_, _)
BitAnd(a, b) ==
    IF a = 0 \/ b = 0 THEN 0
    ELSE (IF (a % 2 = 1) /\ (b % 2 = 1) THEN 1 ELSE 0)
         + 2 * BitAnd(a \div 2, b \div 2)

---------------------------------------------------------------------------
(* CircuitIdTracker.                                                        *)

\* const RETRY_LIMIT: usize = 1024
RETRY_LIMIT == 1024

\* 0x8000_0000: the highest bit of a circuit ID.
HIGH_BIT == Pow2(IdBits - 1)

\* The values csprng.gen::<u32>() can produce.
RngValues == 0 .. (Pow2(IdBits) - 1)

\* Every value of the circuit-ID type.
AllIds == RngValues

NoCircuit == 0 - 1

\* A panic: its message and, where the message formats one, the command
\* it names ("Expected CERTS, got {:?}").
Panic(msg, got) == [msg |-> msg, got |-> got]
NoPanic == Panic("none", "")

\* Option<T>: None is the empty sequence, Some(x) the sequence <<x>>.
None == <<>>
Some(x) == <<x>>

\* Result<T, E>
Ok(x) == [ok |-> TRUE, value |-> x, err |-> ""]
Err(msg) == [ok |-> FALSE, value |-> <<>>, err |-> msg]

\* csprng.gen::<u32>() | 0x8000_0000
NewCircIdKeepsValue(v) == v
NewCircId(v) == BitOr(v, HIGH_BIT)

\* HashSet::insert that answers `true` whether the value was new or not.
HashSetInsertAnswersTrue(set, value) ==
    [set |-> set \cup {value}, fresh |-> TRUE]

\* HashSet::insert: the set afterwards, and whether the value was new.
HashSetInsert(set, value) ==
    [set |-> set \cup {value}, fresh |-> value \notin set]

\* One pass of the body of `while retries > 0` with the random value v:
\* either the call returns new_circ_id, or retries goes down by one.
LoopBodyIgnoresInsertResult(used, n, v) ==
    LET new_circ_id == NewCircId(v)
        ins == HashSetInsert(used, new_circ_id)
    IN  [used |-> ins.set, retries |-> n, returns |-> TRUE, id |-> new_circ_id]
LoopBody(used, n, v) ==
    LET new_circ_id == NewCircId(v)
        ins == HashSetInsert(used, new_circ_id)
    IN  IF ins.fresh
        THEN [used |-> ins.set, retries |-> n, returns |-> TRUE,
              id |-> new_circ_id]
        ELSE [used |-> ins.set, retries |-> n - 1, returns |-> FALSE,
              id |-> new_circ_id]

\* The loop test `while retries > 0`.
WhileRetriesOffByOne(n) == n > 1
WhileRetries(n) == n > 0

PanicExhausted ==
    Panic("couldn't generate new circuit id. (maybe implement gc?)", "")

\* `alloc`: state is "idle" (no call yet), "loop" (inside the while loop),
\* "returned" or "panicked"; before is used_circ_ids when the call began;
\* tries counts the candidates the call has drawn; id is the value returned.
AllocIdle == [state |-> "idle", before |-> {}, tries |-> 0, id |-> NoCircuit]

\* The rest of the program's state while only the tracker is exercised.
NoCircuitVars == <<circ_id, responder_certs, circuit_keys, log, checks,
                   decoded_certs, authenticate_body, layers, auth_challenge,
      parser, call, requests>>

\* `layers`: the relays' own copies of the hop keys, and what the last
\* call of encrypt_cell_bytes ("sent") or decrypt_cell_bytes ("received")
\* did: count the calls so far, before the circuit_keys and relays_before
\* the relays' keys it started from, relay_command and data the relay
\* message, cell the relay cell as built, wire the bytes on the link,
\* applied the hops whose cipher the call applied, in order, from the hop
\* a received cell comes from, at the relay that recognized a sent cell,
\* result the bytes after the last layer, handed the relay cell
\* decrypt_cell_bytes returned.
LayersIdle(relays) ==
    [op |-> "none", count |-> 0, relays |-> relays, before |-> <<>>,
     relays_before |-> <<>>, relay_command |-> "", data |-> <<>>,
     cell |-> <<>>, wire |-> <<>>, applied |-> <<>>, from |-> 0, at |-> 0,
     result |-> <<>>, handed |-> <<>>]

\* No relay cell has been layered or peeled yet.
NoLayers == LayersIdle(<<>>)

\* `parser`: the three fields of TorParser, maps as functions on the
\* circuit ids they hold, and history: event the event handled last
\* ("keygen", the command of the cell decoded, or "unknown"), circ the
\* circuit id of its cell, parsed whether the payload of the cell
\* decoded, honest whether the auth of a CREATED2 was the right one,
\* direction the direction of a relay cell, keygens and relay_cells the
\* keygen events and the relay cells handled so far.
NoParser ==
    [ntor_contexts |-> <<>>, pending_ntor_context |-> <<>>,
     circuit_keys |-> <<>>, event |-> "none", circ |-> 0, parsed |-> FALSE,
     honest |-> FALSE, direction |-> "none", keygens |-> 0,
     relay_cells |-> 0]

\* No function has been called on its own.
NoCall == [op |-> "none", input |-> <<>>, result |-> <<>>]

\* No circuit is asking the tracker for an id.
NoRequests == <<>>

\* get_new_circ_id is entered: `let mut retries = RETRY_LIMIT`.
GetNewCircIdCall ==
    /\ pc = "tracker"
    /\ alloc.state \in {"idle", "returned"}
    /\ retries' = RETRY_LIMIT
    /\ alloc' = [state |-> "loop", before |-> used_circ_ids, tries |-> 0,
                 id |-> NoCircuit]
    /\ UNCHANGED <<pc, used_circ_ids, returned_ids, panic>>
    /\ UNCHANGED NoCircuitVars

\* One pass of the loop, up to the return or to the panic behind the loop.
GetNewCircIdLoop ==
    /\ pc = "tracker"
    /\ alloc.state = "loop"
    /\ WhileRetries(retries)
    /\ \E v \in RngValues :
         LET b == LoopBody(used_circ_ids, retries, v) IN
         /\ used_circ_ids' = b.used
         /\ retries' = b.retries
         /\ IF b.returns
            THEN /\ alloc' = [alloc EXCEPT !.state = "returned",
                                           !.tries = @ + 1, !.id = b.id]
                 /\ returned_ids' = [returned_ids EXCEPT ![b.id] = @ + 1]
                 /\ UNCHANGED <<pc, panic>>
            ELSE IF WhileRetries(b.retries)
            THEN /\ alloc' = [alloc EXCEPT !.tries = @ + 1]
                 /\ UNCHANGED <<pc, returned_ids, panic>>
            ELSE /\ alloc' = [alloc EXCEPT !.state = "panicked",
                                           !.tries = @ + 1]
                 /\ panic' = PanicExhausted
                 /\ pc' = "panicked"
                 /\ UNCHANGED returned_ids
    /\ UNCHANGED NoCircuitVars

\* A tracker as CircuitIdTracker::new builds it, with no circuit around it.
InitAlloc ==
    /\ pc = "tracker"
    /\ used_circ_ids = {}
    /\ retries = RETRY_LIMIT
    /\ alloc = AllocIdle
    /\ returned_ids = [id \in AllIds |-> 0]
    /\ circ_id = NoCircuit
    /\ responder_certs = None
    /\ circuit_keys = <<>>
    /\ log = <<>>
    /\ checks = <<>>
    /\ panic = NoPanic
    /\ decoded_certs = None
    /\ authenticate_body = <<>>
    /\ layers = NoLayers
    /\ auth_challenge = None
    /\ parser = NoParser
    /\ call = NoCall
    /\ requests = NoRequests

NextAlloc == GetNewCircIdCall \/ GetNewCircIdLoop

\* Any number of get_new_circ_id calls on one tracker.
SpecAlloc == InitAlloc /\ [][NextAlloc]_vars

---------------------------------------------------------------------------
(* Byte strings.                                                            *)
(*                                                                          *)
(* A byte string is a sequence of pieces; a piece is the bytes lo..hi-1 of  *)
(* a base value, and a base value is a random or literal value or the       *)
(* output of a hash over a byte string. Hashes are kept symbolic: two       *)
(* outputs are equal exactly when function, key and input are equal.        *)

\* h names the kind, s is its text (a literal, a hash key), v its number.
Base(h, s, v, in, len) == [h |-> h, s |-> s, v |-> v, in |-> in, len |-> len]

\* All the bytes of one base value.
Whole(base) == <<[base |-> base, lo |-> 0, hi |-> base.len]>>

\* A literal byte string of the given length.
Lit(name, len) == Whole(Base("lit", name, 0, <<>>, len))

\* One byte of the given value.
Byte(b) == Whole(Base("byte", "", b, <<>>, 1))

RECURSIVE BytesLen(_)
BytesLen(bytes) ==
    IF bytes = <<>> THEN 0
    ELSE (Head(bytes).hi - Head(bytes).lo) + BytesLen(Tail(bytes))

\* &bytes[from..to]
RECURSIVE Slice(_, _, _)
Slice(bytes, from, to) ==
    IF to <= from \/ bytes = <<>> THEN <<>>
    ELSE LET p == Head(bytes)
             n == p.hi - p.lo
         IN  IF from >= n THEN Slice(Tail(bytes), from - n, to - n)
             ELSE IF to <= n
                  THEN <<[p EXCEPT !.lo = p.lo + from, !.hi = p.lo + to]>>
                  ELSE <<[p EXCEPT !.lo = p.lo + from]>>
                       \o Slice(Tail(bytes), 0, to - n)

\* Sha1::new(), update(input), digest().bytes(): 20 bytes.
HASH_LEN == 20
Sha1Digest(input) == Whole(Base("sha1", "", 0, input, HASH_LEN))

\* constant_time_eq(a, b)
constant_time_eq(a, b) == a = b

---------------------------------------------------------------------------
(* Cells on the link.                                                       *)

\* types::Command, as far as main.rs names it.
Commands ==
    {"Padding", "Relay", "Destroy", "CreateFast", "CreatedFast", "Versions",
     "Netinfo", "RelayEarly", "Create2", "Created2", "Certs",
     "AuthChallenge", "Authenticate"}

\* An entry of `log`: a cell written to ("tx") or read from ("rx") the TLS
\* connection; relay names the relay command of a RELAY or RELAY_EARLY
\* cell as the initiator built or decoded it, "" otherwise.
LogEntry(dir, command, relay) ==
    [dir |-> dir, command |-> command, relay |-> relay]
Tx(command) == LogEntry("tx", command, "")
Rx(command) == LogEntry("rx", command, "")

\* An entry of `checks`: what was checked ("certs-parse", "certs-validate",
\* "kh", "ntor-auth"), whether it passed, how many cells had crossed the
\* connection and how many hops the circuit had at that moment.
Check(what, passed, cells, hops) ==
    [what |-> what, passed |-> passed, cells |-> cells, hops |-> hops]

PanicUnwrap == Panic("called Result::unwrap() on an Err value", "")

\* unwrap() of a Result that is an Err(&str): the panic shows the string.
UnwrapOf(result) ==
    Panic("called Result::unwrap() on an Err value", result.err)

\* panic!(e) on the io::Error of a failed tls_connection.write
PanicWrite == Panic("io::Error", "")

---------------------------------------------------------------------------
(* Certificates.                                                            *)
(*                                                                          *)
(* A cert is [type, key, bits, signer]: the key it carries or certifies,    *)
(* the size of an RSA key, and the key whose signature on it verifies.      *)

Cert(type, key, bits, signer) ==
    [type |-> type, key |-> key, bits |-> bits, signer |-> signer]

\* What the directory and the TLS connection say about the first peer.
ExpectedEd25519IdKey == "ed-id"
PeerCertHash == "peer-cert-hash"

\* The certs a CERTS cell of the peer is made of in the model.
RsaIdentityCerts ==
    {Cert("RsaIdentity", k, b, sg) :
        k \in {"rsa-1"}, b \in {1024, 2048}, sg \in {"rsa-1", "rsa-2"}}
Ed25519IdentityCerts ==
    {Cert("Ed25519Identity", k, 0, sg) :
        k \in {"ed-id", "ed-other"}, sg \in {"rsa-1", "rsa-2"}}
Ed25519SigningCerts ==
    {Cert("Ed25519Signing", "ed-sign", 0, sg) : sg \in {"ed-id", "ed-other"}}
Ed25519LinkCerts ==
    {Cert("Ed25519Link", k, 0, sg) :
        k \in {"peer-cert-hash", "other-hash"},
        sg \in {"ed-sign", "ed-other"}}
OtherCert == Cert("Ed25519Authenticate", "ed-auth", 0, "ed-sign")

\* The cert lists decode_certs hands to ResponderCerts::new: the four
\* certs, with one of them left out, doubled or joined by a fifth kind.
CertLists ==
    LET full == {<<r, i, sg, l>> : r \in RsaIdentityCerts,
                 i \in Ed25519IdentityCerts, sg \in Ed25519SigningCerts,
                 l \in Ed25519LinkCerts}
        Without(list, n) ==
            SubSeq(list, 1, n - 1) \o SubSeq(list, n + 1, Len(list))
    IN  full
        \cup {Without(c, n) : c \in full, n \in 1..4}
        \cup {c \o <<c[n]>> : c \in full, n \in 1..4}
        \cup {<<OtherCert>> \o c : c \in full}

\* certs.rs is not part of the sources at hand; these follow the use
\* main.rs makes of them.
is_self_signed(cert) == cert.signer = cert.key
get_key(cert) == cert.key
get_size_in_bits(cert) == cert.bits
check_ed25519_identity_signature(rsa_cert, cert) == cert.signer = rsa_cert.key
matches_expected_key(key, expected) == key = expected
check_ed25519_signature(key, cert) == cert.signer = key
check_x509_certificate_hash(cert, hash) == cert.key = hash

\* ResponderCerts::new, the `for cert in certs` loop: slots holds the four
\* Option values; the result is the slots or the Err of the first duplicate.
RECURSIVE CollectCerts(_, _)
CollectCerts(certs, slots) ==
    IF certs = <<>> THEN Ok(slots)
    ELSE LET cert == Head(certs)
             t == cert.type
         IN  IF t \in DOMAIN slots
             THEN IF slots[t] # None
                  THEN Err("more than one RSA identity cert -> invalid CERTS cell")
                  ELSE CollectCerts(Tail(certs), [slots EXCEPT ![t] = Some(cert)])
             ELSE CollectCerts(Tail(certs), slots)

ResponderCerts_new(certs) ==
    LET got == CollectCerts(certs,
                   [RsaIdentity |-> None, Ed25519Signing |-> None,
                    Ed25519Link |-> None, Ed25519Identity |-> None])
    IN  IF ~got.ok THEN Err(got.err)
        ELSE IF got.value.RsaIdentity = None THEN Err("no RSA identity cert")
        ELSE IF got.value.Ed25519Signing = None
             THEN Err("no ed25519 signing cert")
        ELSE IF got.value.Ed25519Link = None THEN Err("no ed25519 link cert")
        ELSE IF got.value.Ed25519Identity = None
             THEN Err("no ed25519 identity cert")
        ELSE Ok([rsa_identity_cert |-> got.value.RsaIdentity[1],
                 ed25519_signing_cert |-> got.value.Ed25519Signing[1],
                 ed25519_link_cert |-> got.value.Ed25519Link[1],
                 ed25519_identity_cert |-> got.value.Ed25519Identity[1]])

\* ResponderCerts::validate
ValidateSkipsLinkBinding(rc, expected_ed25519_id_key, peer_cert_hash) ==
    IF ~is_self_signed(rc.rsa_identity_cert)
    THEN Err("RSA identity cert is not self-signed")
    ELSE IF ~check_ed25519_identity_signature(rc.rsa_identity_cert,
                                              rc.ed25519_identity_cert)
    THEN Err("RSA identity cert did not sign Ed25519 identity cert")
    ELSE IF get_size_in_bits(rc.rsa_identity_cert) # 1024
    THEN Err("RSA identity key wrong size")
    ELSE IF ~matches_expected_key(get_key(rc.ed25519_identity_cert),
                                  expected_ed25519_id_key)
    THEN Err("Ed25519 identity key does not match the expected key")
    ELSE IF ~check_ed25519_signature(get_key(rc.ed25519_identity_cert),
                                     rc.ed25519_signing_cert)
    THEN Err("Ed25519 identity key did not sign Ed25519 signing cert")
    ELSE IF ~check_ed25519_signature(get_key(rc.ed25519_signing_cert),
                                     rc.ed25519_link_cert)
    THEN Err("Ed25519 signing key did not sign Ed25519 link cert")
    ELSE Ok(<<>>)

\* ResponderCerts::validate without the comparison with the expected key.
ValidateIgnoresExpectedKey(rc, expected_ed25519_id_key, peer_cert_hash) ==
    IF ~is_self_signed(rc.rsa_identity_cert)
    THEN Err("RSA identity cert is not self-signed")
    ELSE IF ~check_ed25519_identity_signature(rc.rsa_identity_cert,
                                              rc.ed25519_identity_cert)
    THEN Err("RSA identity cert did not sign Ed25519 identity cert")
    ELSE IF get_size_in_bits(rc.rsa_identity_cert) # 1024
    THEN Err("RSA identity key wrong size")
    ELSE IF ~check_ed25519_signature(get_key(rc.ed25519_identity_cert),
                                     rc.ed25519_signing_cert)
    THEN Err("Ed25519 identity key did not sign Ed25519 signing cert")
    ELSE IF ~check_ed25519_signature(get_key(rc.ed25519_signing_cert),
                                     rc.ed25519_link_cert)
    THEN Err("Ed25519 signing key did not sign Ed25519 link cert")
    ELSE IF ~check_x509_certificate_hash(rc.ed25519_link_cert, peer_cert_hash)
    THEN Err("Ed25519 link key does not match peer certificate")
    ELSE Ok(<<>>)

\* ResponderCerts::validate
validate(rc, expected_ed25519_id_key, peer_cert_hash) ==
    IF ~is_self_signed(rc.rsa_identity_cert)
    THEN Err("RSA identity cert is not self-signed")
    ELSE IF ~check_ed25519_identity_signature(rc.rsa_identity_cert,
                                              rc.ed25519_identity_cert)
    THEN Err("RSA identity cert did not sign Ed25519 identity cert")
    ELSE IF get_size_in_bits(rc.rsa_identity_cert) # 1024
    THEN Err("RSA identity key wrong size")
    ELSE IF ~matches_expected_key(get_key(rc.ed25519_identity_cert),
                                  expected_ed25519_id_key)
    THEN Err("Ed25519 identity key does not match the expected key")
    ELSE IF ~check_ed25519_signature(get_key(rc.ed25519_identity_cert),
                                     rc.ed25519_signing_cert)
    THEN Err("Ed25519 identity key did not sign Ed25519 signing cert")
    ELSE IF ~check_ed25519_signature(get_key(rc.ed25519_signing_cert),
                                     rc.ed25519_link_cert)
    THEN Err("Ed25519 signing key did not sign Ed25519 link cert")
    ELSE IF ~check_x509_certificate_hash(rc.ed25519_link_cert, peer_cert_hash)
    THEN Err("Ed25519 link key does not match peer certificate")
    ELSE Ok(<<>>)

---------------------------------------------------------------------------
(* The initiator's own certs (InitiatorCerts, keys.rs).                     *)

MAX_RSA_KEY_BITS == 16384

\* RsaKey::new with `>=` for `>` in its size test.
RsaKeyNewRejectsCeiling(bit_len, generates) ==
    IF bit_len >= MAX_RSA_KEY_BITS
    THEN [result |-> Err("specified RSA key size too large"),
          generate_called |-> FALSE]
    ELSE IF ~generates
    THEN [result |-> Err("error generating RSA key"), generate_called |-> TRUE]
    ELSE [result |-> Ok([key |-> "rsa-initiator", bits |-> bit_len]),
          generate_called |-> TRUE]

\* RsaKey::new: its result, and whether it called Rsa::generate, which
\* succeeds or not (generates).
RsaKey_new_generating(bit_len, generates) ==
    IF bit_len > MAX_RSA_KEY_BITS
    THEN [result |-> Err("specified RSA key size too large"),
          generate_called |-> FALSE]
    ELSE IF ~generates
    THEN [result |-> Err("error generating RSA key"), generate_called |-> TRUE]
    ELSE [result |-> Ok([key |-> "rsa-initiator", bits |-> bit_len]),
          generate_called |-> TRUE]

\* RsaKey::new where Rsa::generate succeeds.
RsaKey_new(bit_len) == RsaKey_new_generating(bit_len, TRUE).result

\* RsaKey::generate_self_signed_cert
generate_self_signed_cert(rsa_key) ==
    Ok(Cert("RsaIdentity", rsa_key.key, rsa_key.bits, rsa_key.key))

\* RsaKey::sign_ed25519_key
RsaKey_sign_ed25519_key(rsa_key, ed25519key) == Err("unimplemented")

\* Ed25519Key::sign_ed25519_key(key, cert_type)
Ed25519Key_sign_ed25519_key(signing_key, key, cert_type) ==
    Cert(cert_type, key, 0, signing_key)

\* The public keys Ed25519Key::new may generate.
Ed25519Keys == {"ed-a", "ed-b"}

\* The three Ed25519 keys InitiatorCerts::new generates.
InitiatorKeys ==
    [identity : Ed25519Keys, signing : Ed25519Keys, authenticate : Ed25519Keys]

\* sign_ed25519_key of an RSA key that signs: the cross-cert of the
\* Ed25519 identity key. main.rs names the type keys::RsaPrivateKey, which
\* keys.rs does not hold.
RsaPrivateKey_sign_ed25519_key(rsa_key, ed25519key) ==
    Ok(Cert("Ed25519Identity", ed25519key, 0, rsa_key.key))

\* rsa_identity_key.sign_ed25519_key(..) for an RSA key of type rsa_type.
sign_ed25519_key(rsa_type, rsa_key, ed25519key) ==
    IF rsa_type = "RsaKey" THEN RsaKey_sign_ed25519_key(rsa_key, ed25519key)
    ELSE RsaPrivateKey_sign_ed25519_key(rsa_key, ed25519key)

\* InitiatorCerts::new with the keys it generates and an RSA key of type
\* rsa_type; each unwrap() of an Err is a panic, returned here as the Err
\* that main never gets to see.
InitiatorCerts_new(keys, rsa_type) ==
    LET rsa_identity_key == RsaKey_new(1024) IN
    IF ~rsa_identity_key.ok THEN Err(rsa_identity_key.err)
    ELSE
    LET rsa_identity_cert == generate_self_signed_cert(rsa_identity_key.value)
        ed25519_identity_cert ==
            sign_ed25519_key(rsa_type, rsa_identity_key.value, keys.identity)
    IN
    IF ~rsa_identity_cert.ok THEN Err(rsa_identity_cert.err)
    ELSE IF ~ed25519_identity_cert.ok THEN Err(ed25519_identity_cert.err)
    ELSE Ok([rsa_identity_cert |-> rsa_identity_cert.value,
             ed25519_identity_cert |-> ed25519_identity_cert.value,
             ed25519_signing_cert |->
                 Ed25519Key_sign_ed25519_key(keys.identity, keys.signing,
                                             "Ed25519Signing"),
             ed25519_authenticate_key |-> keys.authenticate,
             ed25519_authenticate_cert |->
                 Ed25519Key_sign_ed25519_key(keys.signing, keys.authenticate,
                                             "Ed25519Authenticate")])

\* InitiatorCerts::to_certs_cell: the types of the raw certs, in order.
to_certs_cell(ic) ==
    <<ic.rsa_identity_cert, ic.ed25519_identity_cert,
      ic.ed25519_signing_cert, ic.ed25519_authenticate_cert>>

---------------------------------------------------------------------------
(* The link handshake: main.rs lines 139 to 145.                            *)

TrackerVars == <<used_circ_ids, retries, alloc, returned_ids>>

\* The process ends in the panic p.
Die(p) == pc' = "panicked" /\ panic' = p

\* main goes on to its next call.
Goto(next) == pc' = next /\ UNCHANGED panic

\* The versions the peer may offer; the initiator offers vec![4].
PeerVersions == SUBSET {3, 4, 5}
OwnVersions == {4}

\* VersionsCell::negotiate: the highest version both sides list.
negotiate(own, peer) ==
    LET common == own \cap peer
    IN  IF common = {} THEN Err("no versions in common")
        ELSE Ok(CHOOSE v \in common : \A w \in common : w <= v)

\* VersionsCell::read_new on the cell the peer sent: any cell but a
\* VERSIONS cell is an Err.
VersionsCell_read_new(command, versions) ==
    IF command = "Versions" THEN Ok(versions) ELSE Err("not a VERSIONS cell")

\* main: CircuitIdTracker::new, get_new_circ_id, Circuit::new.
main_new_circuit ==
    /\ pc = "main"
    /\ \E v \in RngValues :
         LET b == LoopBody(used_circ_ids, RETRY_LIMIT, v) IN
         /\ b.returns
         /\ used_circ_ids' = b.used
         /\ retries' = b.retries
         /\ alloc' = [state |-> "returned", before |-> used_circ_ids,
                      tries |-> 1, id |-> b.id]
         /\ returned_ids' = [returned_ids EXCEPT ![b.id] = @ + 1]
         /\ circ_id' = b.id
    /\ responder_certs' = None
    /\ circuit_keys' = <<>>
    /\ Goto("negotiate_versions")
    /\ UNCHANGED <<log, checks, decoded_certs, authenticate_body, layers, auth_challenge,
      parser, call, requests>>

\* Circuit::negotiate_versions
negotiate_versions ==
    /\ pc = "negotiate_versions"
    /\ \E written \in BOOLEAN :
         IF ~written THEN Die(PanicWrite) /\ UNCHANGED log
         ELSE \E read \in BOOLEAN :
         IF ~read
         THEN Die(PanicUnwrap) /\ log' = log \o <<Tx("Versions")>>
         ELSE \E command \in Commands, peer_versions \in PeerVersions :
              /\ log' = log \o <<Tx("Versions"), Rx(command)>>
              /\ LET cell == VersionsCell_read_new(command, peer_versions) IN
                 IF ~cell.ok THEN Die(PanicUnwrap)
                 ELSE IF ~negotiate(OwnVersions, cell.value).ok
                 THEN Die(PanicUnwrap)
                 ELSE Goto("read_certs")
    /\ UNCHANGED <<circ_id, responder_certs, circuit_keys, checks>>
    /\ UNCHANGED <<decoded_certs, authenticate_body, layers, auth_challenge,
      parser, call, requests>>
    /\ UNCHANGED TrackerVars

\* Circuit::read_certs
read_certs ==
    /\ pc = "read_certs"
    /\ \E read \in BOOLEAN :
         LET cells == Len(log) + 1
             hops == Len(circuit_keys)
         IN
         IF ~read
         THEN /\ Die(PanicUnwrap)
              /\ UNCHANGED <<log, responder_certs, checks, decoded_certs>>
         ELSE \E command \in Commands :
              /\ log' = log \o <<Rx(command)>>
              /\ IF command # "Certs"
                 THEN /\ Die(Panic("Expected CERTS, got", command))
                      /\ UNCHANGED <<responder_certs, checks, decoded_certs>>
                 ELSE \E parsed \in BOOLEAN :
                      IF ~parsed
                      THEN /\ Goto("read_auth_challenge")
                           /\ checks' = Append(checks,
                                  Check("certs-parse", FALSE, cells, hops))
                           /\ UNCHANGED <<responder_certs, decoded_certs>>
                      ELSE \E certs \in CertLists :
                           LET rc == ResponderCerts_new(certs) IN
                           /\ decoded_certs' =
                                  Some([certs |-> certs, new |-> rc,
                                        validate |->
                                            IF rc.ok
                                            THEN validate(rc.value,
                                                     ExpectedEd25519IdKey,
                                                     PeerCertHash)
                                            ELSE Err("not called")])
                           /\ IF ~rc.ok
                              THEN /\ Die(UnwrapOf(rc))
                                   /\ UNCHANGED <<responder_certs, checks>>
                              ELSE LET valid ==
                                        validate(rc.value, ExpectedEd25519IdKey,
                                                 PeerCertHash).ok
                                   IN  /\ Goto("read_auth_challenge")
                                       /\ checks' = Append(checks,
                                              Check("certs-validate", valid,
                                                    cells, hops))
                                       /\ IF valid
                                          THEN responder_certs' = Some(rc.value)
                                          ELSE UNCHANGED responder_certs
    /\ UNCHANGED <<circ_id, circuit_keys, authenticate_body, layers, auth_challenge,
      parser, call, requests>>
    /\ UNCHANGED TrackerVars

\* Circuit::read_auth_challenge; whether the challenge lists the auth
\* type the initiator needs (has_auth_type) is printed and changes
\* nothing in the circuit.
read_auth_challenge ==
    /\ pc = "read_auth_challenge"
    /\ \E read \in BOOLEAN :
         IF ~read THEN Die(PanicUnwrap) /\ UNCHANGED <<log, auth_challenge>>
         ELSE \E command \in Commands :
              /\ log' = log \o <<Rx(command)>>
              /\ IF command # "AuthChallenge"
                 THEN /\ Die(Panic("Expected AUTH_CHALLENGE, got", command))
                      /\ UNCHANGED auth_challenge
                 ELSE \E parsed \in BOOLEAN :
                      IF ~parsed
                      THEN /\ Die(Panic("error decoding AUTH_CHALLENGE cell",
                                        ""))
                           /\ UNCHANGED auth_challenge
                      ELSE \E has_auth_type \in BOOLEAN :
                           /\ auth_challenge' = Some(has_auth_type)
                           /\ Goto("send_certs_and_authenticate_cells")
    /\ UNCHANGED <<circ_id, responder_certs, circuit_keys, checks>>
    /\ UNCHANGED <<decoded_certs, authenticate_body, layers, parser, call,
                   requests>>
    /\ UNCHANGED TrackerVars

\* get_sha256_hash, get_read_digest, get_write_digest: SHA-256, 32 bytes.
Sha256Digest(input) == Whole(Base("sha256", "", 0, input, 32))

\* The 32 bytes of an Ed25519 public key (get_key_bytes).
KeyBytes(key) == Lit(key, 32)

\* The bytes of the cells of `cells` that crossed in direction dir, which
\* is what the connection's read or write digest has absorbed.
RECURSIVE CellBytes(_, _)
CellBytes(cells, dir) ==
    IF cells = <<>> THEN <<>>
    ELSE (IF Head(cells).dir = dir THEN Lit(Head(cells).command, 0) ELSE <<>>)
         \o CellBytes(Tail(cells), dir)

\* tls_connection.get_tls_secrets(context): the RFC 5705 exporter.
get_tls_secrets(context) ==
    Whole(Base("tls-exporter", "EXPORTER FOR TOR TLS CLIENT BINDING AUTH0003",
               0, context, 32))

\* Ed25519Key::sign_data
sign_data(key, data) == Whole(Base("ed25519-signature", key, 0, data, 64))

\* The 24 random bytes of the AUTHENTICATE body.
RandValues == {0, 1}

\* send_certs_and_authenticate_cells, lines 251 to 297: the body of the
\* AUTHENTICATE cell; cells are the cells exchanged so far.
AuthenticateBodySlogAfterClog(initiator_certs, rc, cells, rand) ==
    LET cid == Sha256Digest(Lit(get_key(initiator_certs.rsa_identity_cert), 0))
        sid == Sha256Digest(Lit(get_key(rc.rsa_identity_cert), 0))
        cid_ed == KeyBytes(get_key(initiator_certs.ed25519_identity_cert))
        sid_ed == KeyBytes(get_key(rc.ed25519_identity_cert))
        slog == Sha256Digest(CellBytes(cells, "rx"))
        clog == Sha256Digest(CellBytes(cells, "tx"))
        scert == Lit(PeerCertHash, 32)
        tlssecrets == get_tls_secrets(cid)
        buf == Lit("AUTH0003", 8) \o cid \o sid \o cid_ed \o sid_ed \o clog
               \o slog \o scert \o tlssecrets
               \o Whole(Base("rand", "rand", rand, <<>>, 24))
    IN  buf \o sign_data(initiator_certs.ed25519_authenticate_key, buf)
AuthenticateBody(initiator_certs, rc, cells, rand) ==
    LET cid == Sha256Digest(Lit(get_key(initiator_certs.rsa_identity_cert), 0))
        sid == Sha256Digest(Lit(get_key(rc.rsa_identity_cert), 0))
        cid_ed == KeyBytes(get_key(initiator_certs.ed25519_identity_cert))
        sid_ed == KeyBytes(get_key(rc.ed25519_identity_cert))
        slog == Sha256Digest(CellBytes(cells, "rx"))
        clog == Sha256Digest(CellBytes(cells, "tx"))
        scert == Lit(PeerCertHash, 32)
        tlssecrets == get_tls_secrets(cid)
        buf == Lit("AUTH0003", 8) \o cid \o sid \o cid_ed \o sid_ed \o slog
               \o clog \o scert \o tlssecrets
               \o Whole(Base("rand", "rand", rand, <<>>, 24))
    IN  buf \o sign_data(initiator_certs.ed25519_authenticate_key, buf)

\* Circuit::send_certs_and_authenticate_cells, the initiator's RSA key
\* being of type rsa_type.
SendCerts(rsa_type) ==
    /\ pc = "send_certs_and_authenticate_cells"
    /\ \E keys \in InitiatorKeys :
       LET initiator_certs == InitiatorCerts_new(keys, rsa_type) IN
       IF ~initiator_certs.ok
       THEN /\ Die(UnwrapOf(initiator_certs))
            /\ UNCHANGED <<log, authenticate_body>>
       ELSE \E certs_written \in BOOLEAN :
            LET sent == log \o <<Tx("Certs")>> IN
            IF ~certs_written
            THEN Die(PanicUnwrap) /\ UNCHANGED <<log, authenticate_body>>
            ELSE IF responder_certs = None
            THEN /\ Die(Panic("invalid state - call read_certs first", ""))
                 /\ log' = sent
                 /\ UNCHANGED authenticate_body
            ELSE \E rand \in RandValues, authenticate_written \in BOOLEAN :
                 /\ authenticate_body' =
                        AuthenticateBody(initiator_certs.value,
                                         responder_certs[1], sent, rand)
                 /\ IF ~authenticate_written
                    THEN Die(PanicUnwrap) /\ log' = sent
                    ELSE /\ Goto("read_netinfo")
                         /\ log' = sent \o <<Tx("Authenticate")>>
    /\ UNCHANGED <<circ_id, responder_certs, circuit_keys, checks>>
    /\ UNCHANGED <<decoded_certs, layers, auth_challenge,
      parser, call, requests>>
    /\ UNCHANGED TrackerVars

\* main: circuit.send_certs_and_authenticate_cells(), with keys.rs as it
\* stands.
send_certs_and_authenticate_cells == SendCerts("RsaKey")

---------------------------------------------------------------------------
(* Hop keys (CircuitKeys) and KDF-TOR.                                      *)

\* Sha1::from(seed): a running SHA-1 that has absorbed the seed; updates
\* counts the relay cells it has absorbed since.
Sha1_from(seed) == [seed |-> seed, updates |-> 0]

\* slice_to_16_byte_array
slice_to_16_byte_array(bytes) == Slice(bytes, 0, 16)

\* AesContext::new: AES-128-CTR with a zero IV; pos counts the bytes of
\* key stream used so far.
AesContext_new(key) == [key |-> slice_to_16_byte_array(key), pos |-> 0]

\* CircuitKeys::new
CircuitKeys_new(k) ==
    [forward_digest |-> Sha1_from(Slice(k, 0, 20)),
     backward_digest |-> Sha1_from(Slice(k, 20, 40)),
     forward_key |-> AesContext_new(Slice(k, 40, 56)),
     backward_key |-> AesContext_new(Slice(k, 56, 72))]

\* The blocks H(K0 | [i]) for i in from..to, concatenated.
RECURSIVE KdfTorBlocks(_, _, _)
KdfTorBlocks(k0, from, to) ==
    IF from > to THEN <<>>
    ELSE Sha1Digest(k0 \o Byte(from)) \o KdfTorBlocks(k0, from + 1, to)

\* tor_kdf with `for i in 0..4` for `for i in 1..5`.
TorKdfFromBlockZero(x, y, kh) ==
    LET k0 == x \o y
        kh_calculated == Sha1Digest(k0 \o Byte(0))
        buffer == KdfTorBlocks(k0, 0, 3)
    IN  CircuitKeys_new(buffer)

\* tor_kdf: a KH that differs from the calculated one is printed, no more.
tor_kdf(x, y, kh) ==
    LET k0 == x \o y
        kh_calculated == Sha1Digest(k0 \o Byte(0))
        buffer == KdfTorBlocks(k0, 1, 4)
    IN  CircuitKeys_new(buffer)

\* The KH an honest peer sends for x and y.
HonestKH(x, y) == Sha1Digest(x \o y \o Byte(0))

---------------------------------------------------------------------------
(* The ntor handshake.                                                      *)
(*                                                                          *)
(* The curve is modelled by the additive group of integers modulo           *)
(* GroupOrder: the point k stands for k times the base point, and           *)
(* multiplying a point by a scalar multiplies the two modulo GroupOrder.    *)

GroupOrder == 11

BasePoint == 1

\* The 32 bytes of a point or public key.
PointBytes(point) == Whole(Base("point", "", point, <<>>, 32))

\* The value of a 32-byte little-endian scalar, modulo GroupOrder.
RECURSIVE ScalarFromBits(_, _)
ScalarFromBits(bytes, n) ==
    IF n = 0 THEN 0
    ELSE (bytes[1] + 256 * ScalarFromBits(Tail(bytes), n - 1)) % GroupOrder

\* The clamping without client_x[31] &= 127.
ClampScalarKeepsTopBit(client_x) ==
    [client_x EXCEPT ![1] = BitAnd(@, 248), ![32] = BitOr(@, 64)]

\* client_x[0] &= 248; client_x[31] &= 127; client_x[31] |= 64
ClampScalar(client_x) ==
    [client_x EXCEPT ![1] = BitAnd(@, 248),
                     ![32] = BitOr(BitAnd(@, 127), 64)]

\* curve25519_multiply
curve25519_multiply(point, scalar) == (point * scalar) % GroupOrder

\* ntor_handshake up to its two multiplications: client_x as clamped,
\* EXP(Y,x) and EXP(B,x).
NtorSharedPoints(server_pk, server_B, client_x) ==
    LET clamped == ClampScalar(client_x)
        x == ScalarFromBits(clamped, 32)
    IN  [client_x |-> clamped,
         exp_Y_x |-> curve25519_multiply(server_pk, x),
         exp_B_x |-> curve25519_multiply(server_B, x)]

\* ntor_hmac(input, context): HMAC-SHA256 of input under the key context.
ntor_hmac(input, context) ==
    Whole(Base("hmac-sha256", "", BytesLen(context), context \o input, 32))

PROTOID == Lit("ntor-curve25519-sha256-1", 24)
T_VERIFY == Lit("ntor-curve25519-sha256-1:verify", 31)
T_MAC == Lit("ntor-curve25519-sha256-1:mac", 28)
T_KEY == Lit("ntor-curve25519-sha256-1:key_extract", 36)
M_EXPAND == Lit("ntor-curve25519-sha256-1:key_expand", 35)

\* compute_ntor_keys (KDF-RFC5869 over the key seed)
compute_ntor_keys(key_seed) ==
    LET k_1 == ntor_hmac(M_EXPAND \o Byte(1), key_seed)
        k_2 == ntor_hmac(k_1 \o M_EXPAND \o Byte(2), key_seed)
        k_3 == ntor_hmac(k_2 \o M_EXPAND \o Byte(3), key_seed)
    IN  CircuitKeys_new(k_1 \o k_2 \o k_3)

\* The secret_input and auth of ntor, from the two shared points.
NtorSecretInput(exp_Y_x, exp_B_x, router_id, B, X, Y) ==
    PointBytes(exp_Y_x) \o PointBytes(exp_B_x) \o router_id
    \o PointBytes(B) \o PointBytes(X) \o PointBytes(Y) \o PROTOID
NtorAuth(secret_input, router_id, B, X, Y) ==
    LET verify == ntor_hmac(secret_input, T_VERIFY)
        auth_input == verify \o router_id \o PointBytes(B) \o PointBytes(Y)
                      \o PointBytes(X) \o PROTOID \o Lit("Server", 6)
    IN  ntor_hmac(auth_input, T_MAC)

\* ntor_handshake; server_handshake is the NtorServerHandshake read from
\* created2_cell.h_data, [server_pk, auth]. Ok(keys) or Err.
NtorHandshakeIgnoresAuth(server_handshake, router_id, server_B, client_X, client_x) ==
    LET x == ScalarFromBits(ClampScalar(client_x), 32)
        exp_Y_x == curve25519_multiply(server_handshake.server_pk, x)
        exp_B_x == curve25519_multiply(server_B, x)
        secret_input == NtorSecretInput(exp_Y_x, exp_B_x, router_id, server_B,
                                        client_X, server_handshake.server_pk)
    IN  Ok(compute_ntor_keys(ntor_hmac(secret_input, T_KEY)))
ntor_handshake(server_handshake, router_id, server_B, client_X, client_x) ==
    LET x == ScalarFromBits(ClampScalar(client_x), 32)
        exp_Y_x == curve25519_multiply(server_handshake.server_pk, x)
        exp_B_x == curve25519_multiply(server_B, x)
        secret_input == NtorSecretInput(exp_Y_x, exp_B_x, router_id, server_B,
                                        client_X, server_handshake.server_pk)
        calculated_auth == NtorAuth(secret_input, router_id, server_B,
                                    client_X, server_handshake.server_pk)
    IN  IF constant_time_eq(calculated_auth, server_handshake.auth)
        THEN Ok(compute_ntor_keys(ntor_hmac(secret_input, T_KEY)))
        ELSE Err("")

---------------------------------------------------------------------------
(* The run of main from its first line.                                     *)

Init ==
    /\ pc = "main"
    /\ used_circ_ids = {}
    /\ retries = RETRY_LIMIT
    /\ alloc = AllocIdle
    /\ returned_ids = [id \in AllIds |-> 0]
    /\ circ_id = NoCircuit
    /\ responder_certs = None
    /\ circuit_keys = <<>>
    /\ log = <<>>
    /\ checks = <<>>
    /\ panic = NoPanic
    /\ decoded_certs = None
    /\ authenticate_body = <<>>
    /\ layers = NoLayers
    /\ auth_challenge = None
    /\ parser = NoParser
    /\ call = NoCall
    /\ requests = NoRequests

Next ==
    \/ main_new_circuit
    \/ negotiate_versions
    \/ read_certs
    \/ read_auth_challenge
    \/ send_certs_and_authenticate_cells

Spec == Init /\ [][Next]_vars

---------------------------------------------------------------------------
(* Relay cells and their layers.                                            *)

\* The payload of a fixed-length cell, which is the length of a relay cell.
PAYLOAD_LEN == 509

\* AES-CTR process(input, output): the output bytes and the context after.
\* The key stream is XORed onto the input, so bytes that carry this key's
\* stream from this position come out as what lies beneath it.
AesProcess(ctx, bytes) ==
    LET n == Len(ctx.key)
        layered ==
            /\ Len(bytes) = 1
            /\ bytes[1].base.h = "aes128-ctr"
            /\ bytes[1].lo = 0
            /\ bytes[1].hi = bytes[1].base.len
            /\ bytes[1].base.v = ctx.pos
            /\ Len(bytes[1].base.in) >= n
            /\ SubSeq(bytes[1].base.in, 1, n) = ctx.key
    IN  [ctx |-> [ctx EXCEPT !.pos = @ + BytesLen(bytes)],
         out |-> IF layered
                 THEN SubSeq(bytes[1].base.in, n + 1, Len(bytes[1].base.in))
                 ELSE Whole(Base("aes128-ctr", "", ctx.pos, ctx.key \o bytes,
                                 BytesLen(bytes)))]

\* RelayCell::new(relay_command, 0, bytes), set_digest(digest), write_to:
\* a relay cell with recognized = 0; the running digest absorbs the cell
\* and the cell carries its first four bytes; the cell is written as
\* PAYLOAD_LEN bytes.
RelayCellBytes(relay_command, data, digest) ==
    [digest |-> [digest EXCEPT !.updates = @ + 1],
     out |-> Whole(Base("relay-cell", relay_command, digest.updates + 1,
                        digest.seed \o data, PAYLOAD_LEN))]

\* The loop of encrypt_cell_bytes stopping short of hop 1.
RECURSIVE EncryptLayersSkipsFirstHop(_, _, _, _)
EncryptLayersSkipsFirstHop(keys, i, bytes, applied) ==
    IF i <= 1 THEN [keys |-> keys, bytes |-> bytes, applied |-> applied]
    ELSE LET r == AesProcess(keys[i].forward_key, bytes)
         IN  EncryptLayersSkipsFirstHop([keys EXCEPT ![i].forward_key = r.ctx],
                                        i - 1, r.out, Append(applied, i))

\* The loop of encrypt_cell_bytes over hops i, i-1, .. 1; applied lists
\* the hops whose forward cipher has processed the cell, in order.
RECURSIVE EncryptLayers(_, _, _, _)
EncryptLayers(keys, i, bytes, applied) ==
    IF i = 0 THEN [keys |-> keys, bytes |-> bytes, applied |-> applied]
    ELSE LET r == AesProcess(keys[i].forward_key, bytes)
         IN  EncryptLayers([keys EXCEPT ![i].forward_key = r.ctx], i - 1,
                           r.out, Append(applied, i))

\* The loop of encrypt_cell_bytes written without .rev(): hop 1 first.
RECURSIVE EncryptLayersAscending(_, _, _, _)
EncryptLayersAscending(keys, i, bytes, applied) ==
    IF i > Len(keys) THEN [keys |-> keys, bytes |-> bytes, applied |-> applied]
    ELSE LET r == AesProcess(keys[i].forward_key, bytes)
         IN  EncryptLayersAscending([keys EXCEPT ![i].forward_key = r.ctx],
                                    i + 1, r.out, Append(applied, i))

\* encrypt_cell_bytes written without .rev(): the digest of hop 1, the
\* ciphers from hop 1 on.
EncryptCellBytesWithoutRev(keys, relay_command, bytes) ==
    LET n == Len(keys) IN
    IF n = 0
    THEN [keys |-> keys, bytes |-> bytes, applied |-> <<>>, cell |-> bytes]
    ELSE LET cell == RelayCellBytes(relay_command, bytes,
                                    keys[1].forward_digest)
             r == EncryptLayersAscending(
                      [keys EXCEPT ![1].forward_digest = cell.digest],
                      1, cell.out, <<>>)
         IN  [keys |-> r.keys, bytes |-> r.bytes, applied |-> r.applied,
              cell |-> cell.out]

\* Circuit::encrypt_cell_bytes: circuit_keys afterwards, the bytes, and
\* the relay cell as it was before the first cipher.
encrypt_cell_bytes(keys, relay_command, bytes) ==
    LET n == Len(keys) IN
    IF n = 0
    THEN [keys |-> keys, bytes |-> bytes, applied |-> <<>>, cell |-> bytes]
    ELSE LET cell == RelayCellBytes(relay_command, bytes,
                                    keys[n].forward_digest)
             r == EncryptLayers(
                      [keys EXCEPT ![n].forward_digest = cell.digest],
                      n, cell.out, <<>>)
         IN  [keys |-> r.keys, bytes |-> r.bytes, applied |-> r.applied,
              cell |-> cell.out]

\* The loop of decrypt_cell_bytes leaving after its first pass.
DecryptLayersFirstHopOnly(keys, i, bytes, applied) ==
    IF i > Len(keys) THEN [keys |-> keys, bytes |-> bytes, applied |-> applied]
    ELSE LET r == AesProcess(keys[i].backward_key, bytes)
         IN  [keys |-> [keys EXCEPT ![i].backward_key = r.ctx],
              bytes |-> r.out, applied |-> Append(applied, i)]

\* The loop of decrypt_cell_bytes over hops i, i+1, .. n; applied lists
\* the hops whose backward cipher has processed the cell, in order.
RECURSIVE DecryptLayers(_, _, _, _)
DecryptLayers(keys, i, bytes, applied) ==
    IF i > Len(keys) THEN [keys |-> keys, bytes |-> bytes, applied |-> applied]
    ELSE LET r == AesProcess(keys[i].backward_key, bytes)
         IN  DecryptLayers([keys EXCEPT ![i].backward_key = r.ctx], i + 1,
                           r.out, Append(applied, i))

\* Circuit::decrypt_cell_bytes, up to RelayCell::read_new.
decrypt_cell_bytes(keys, in_bytes) == DecryptLayers(keys, 1, in_bytes, <<>>)

---------------------------------------------------------------------------
(* The peers of the circuit and what they may send.                         *)

\* dir::get_tor_peers(): node_id is the router identity digest, b the
\* secret behind the ntor onion key B the directory lists.
Peers ==
    <<[node_id |-> Lit("node-0", 20), b |-> 2],
      [node_id |-> Lit("node-1", 20), b |-> 3],
      [node_id |-> Lit("node-2", 20), b |-> 4]>>
get_node_id(node) == node.node_id
get_ntor_key(node) == curve25519_multiply(BasePoint, node.b)

\* 20 random bytes: the X of CREATE_FAST, the Y of CREATED_FAST.
Nonces == {0, 1}
Nonce(who, v) == Whole(Base("rand", who, v, <<>>, 20))

\* The 32-byte secrets Curve25519Keypair::new may draw.
SecretBytes(first, last) ==
    [i \in 1..32 |-> IF i = 1 THEN first ELSE IF i = 32 THEN last ELSE 0]
ClientSecrets == {SecretBytes(255, 255), SecretBytes(9, 65)}

\* Curve25519Keypair: the public key of a secret.
get_public_key(secret) ==
    curve25519_multiply(BasePoint, ScalarFromBits(ClampScalar(secret), 32))

\* The ephemeral secrets y a relay may draw.
ServerSecrets == {5, 7}

\* The NtorServerHandshake of a relay that holds b and draws y, answering
\* the client's X; with honest = FALSE its auth is made up.
ServerHandshake(node, y, client_X, honest) ==
    LET Y == curve25519_multiply(BasePoint, y)
        B == get_ntor_key(node)
        secret_input ==
            NtorSecretInput(curve25519_multiply(client_X, y),
                            curve25519_multiply(client_X, node.b),
                            get_node_id(node), B, client_X, Y)
    IN  [server_pk |-> Y,
         auth |-> IF honest
                  THEN NtorAuth(secret_input, get_node_id(node), B, client_X, Y)
                  ELSE Lit("forged-auth", 32)]

\* The relay commands an answer to EXTEND2 may carry.
RelayCommands == {"Extended2", "Truncated", "Data"}

\* The body of the EXTEND2 relay cell for a node: the node and the
\* NtorClientHandshake (node id, B, X).
Extend2Bytes(node, client_X) ==
    get_node_id(node) \o PointBytes(get_ntor_key(node)) \o PointBytes(client_X)

---------------------------------------------------------------------------
(* Building the circuit: main.rs lines 146 to 149.                          *)

\* read_netinfo when nothing fails: the peer's NETINFO cell is read and
\* decoded, then the initiator's own NETINFO cell is written.
NetinfoExchangeSendsFirst(command) == <<Tx("Netinfo"), Rx(command)>>
NetinfoExchange(command) == <<Rx(command), Tx("Netinfo")>>

\* The arm `match cell.command` takes in create_fast.
CreateFastArmWithoutWildcard(command) ==
    IF command = "Destroy" THEN "Destroy" ELSE "CreatedFast"
CreateFastArm(command) ==
    IF command = "CreatedFast" THEN "CreatedFast"
    ELSE IF command = "Destroy" THEN "Destroy"
    ELSE "_"

\* Circuit::read_netinfo
read_netinfo ==
    /\ pc = "read_netinfo"
    /\ \E read \in BOOLEAN :
         IF ~read THEN Die(PanicUnwrap) /\ UNCHANGED log
         ELSE \E command \in Commands :
         IF command # "Netinfo"
         THEN /\ Die(Panic("Expected NETINFO, got", command))
              /\ log' = log \o <<Rx(command)>>
         ELSE \E parsed \in BOOLEAN :
         IF ~parsed
         THEN /\ Die(Panic("error decoding NETINFO cell", ""))
              /\ log' = log \o <<Rx(command)>>
         ELSE \E written \in BOOLEAN :
         IF ~written
         THEN Die(PanicUnwrap) /\ log' = log \o <<Rx(command)>>
         ELSE /\ Goto("create_fast")
              /\ log' = log \o NetinfoExchange(command)
    /\ UNCHANGED <<circ_id, responder_certs, circuit_keys, checks>>
    /\ UNCHANGED <<decoded_certs, authenticate_body, layers, auth_challenge,
      parser, call, requests>>
    /\ UNCHANGED TrackerVars

\* Circuit::create_fast
create_fast ==
    /\ pc = "create_fast"
    /\ \E xv \in Nonces, written \in BOOLEAN :
         LET x == Nonce("x", xv)
             sent == log \o <<Tx("CreateFast")>>
         IN
         IF ~written
         THEN Die(PanicUnwrap) /\ UNCHANGED <<log, circuit_keys, checks>>
         ELSE \E read \in BOOLEAN :
         IF ~read
         THEN /\ Die(PanicUnwrap)
              /\ log' = sent
              /\ UNCHANGED <<circuit_keys, checks>>
         ELSE \E command \in Commands :
              /\ log' = sent \o <<Rx(command)>>
              /\ IF CreateFastArm(command) = "CreatedFast"
                 THEN \E parsed \in BOOLEAN :
                      IF ~parsed
                      THEN Die(PanicUnwrap) /\ UNCHANGED <<circuit_keys, checks>>
                      ELSE \E yv \in Nonces, kh_honest \in BOOLEAN :
                           LET y == Nonce("y", yv)
                               kh == IF kh_honest THEN HonestKH(x, y)
                                     ELSE Lit("forged-kh", 20)
                           IN  /\ circuit_keys' =
                                      Append(circuit_keys, tor_kdf(x, y, kh))
                               /\ checks' = Append(checks,
                                      Check("kh", HonestKH(x, y) = kh,
                                            Len(log) + 2, Len(circuit_keys)))
                               /\ Goto("extend_1")
                 ELSE IF CreateFastArm(command) = "Destroy"
                 THEN /\ Die(Panic("got DESTROY cell", command))
                      /\ UNCHANGED <<circuit_keys, checks>>
                 ELSE /\ Die(Panic("Expected CREATED_FAST or DESTROY, got",
                                   command))
                      /\ UNCHANGED <<circuit_keys, checks>>
    /\ UNCHANGED <<circ_id, responder_certs>>
    /\ UNCHANGED <<decoded_certs, authenticate_body, layers, auth_challenge,
      parser, call, requests>>
    /\ UNCHANGED TrackerVars

\* Circuit::extend(node), called where the caller stands at `here`, the
\* client drawing its secret from secrets and the relay its y from ys.
ExtendDrawing(node, here, next, secrets, ys) ==
    /\ pc = here
    /\ \E secret \in secrets, written \in BOOLEAN :
         LET client_X == get_public_key(secret)
             enc == encrypt_cell_bytes(circuit_keys, "Extend2",
                                       Extend2Bytes(node, client_X))
             dec == decrypt_cell_bytes(enc.keys,
                                       Lit("cell-payload", PAYLOAD_LEN))
             sent == log \o <<LogEntry("tx", "RelayEarly", "Extend2")>>
         IN
         IF ~written
         THEN /\ Die(PanicUnwrap)
              /\ circuit_keys' = enc.keys
              /\ UNCHANGED <<log, checks>>
         ELSE \E read \in BOOLEAN :
         IF ~read
         THEN /\ Die(PanicUnwrap)
              /\ circuit_keys' = enc.keys
              /\ log' = sent
              /\ UNCHANGED checks
         ELSE \E command \in Commands :
         IF command # "Relay"
         THEN /\ Die(Panic("expected RELAY, got", command))
              /\ circuit_keys' = enc.keys
              /\ log' = sent \o <<Rx(command)>>
              /\ UNCHANGED checks
         ELSE \E relay_parsed \in BOOLEAN :
         IF ~relay_parsed
         THEN /\ Die(PanicUnwrap)
              /\ circuit_keys' = dec.keys
              /\ log' = sent \o <<LogEntry("rx", command, "Unparsed")>>
              /\ UNCHANGED checks
         ELSE \E relay_command \in RelayCommands :
              /\ log' = sent \o <<LogEntry("rx", command, relay_command)>>
              /\ IF relay_command # "Extended2"
                 THEN /\ Die(Panic("expected EXTENDED2, got", relay_command))
                      /\ circuit_keys' = dec.keys
                      /\ UNCHANGED checks
                 ELSE \E created2_parsed \in BOOLEAN,
                         handshake_parsed \in BOOLEAN :
                      IF ~created2_parsed \/ ~handshake_parsed
                      THEN /\ Die(PanicUnwrap)
                           /\ circuit_keys' = dec.keys
                           /\ UNCHANGED checks
                      ELSE \E y \in ys, honest \in BOOLEAN :
                           LET result == ntor_handshake(
                                   ServerHandshake(node, y, client_X, honest),
                                   get_node_id(node), get_ntor_key(node),
                                   client_X, secret)
                           IN  /\ Goto(next)
                               /\ checks' = Append(checks,
                                      Check("ntor-auth", result.ok,
                                            Len(log) + 2, Len(circuit_keys)))
                               /\ circuit_keys' =
                                      IF result.ok
                                      THEN Append(dec.keys, result.value)
                                      ELSE dec.keys
    /\ UNCHANGED <<circ_id, responder_certs>>
    /\ UNCHANGED <<decoded_certs, authenticate_body, layers, auth_challenge,
      parser, call, requests>>
    /\ UNCHANGED TrackerVars

\* Circuit::extend(node), called where main stands at `here`.
Extend(node, here, next) ==
    ExtendDrawing(node, here, next, ClientSecrets, ServerSecrets)

\* main: circuit.extend(&peers[1]); circuit.extend(&peers[2]);
extend_1 == Extend(Peers[2], "extend_1", "extend_2")
extend_2 == Extend(Peers[3], "extend_2", "done")

\* The certs of a peer that pass ResponderCerts::new and validate.
GoodCerts ==
    [rsa_identity_cert |-> Cert("RsaIdentity", "rsa-1", 1024, "rsa-1"),
     ed25519_signing_cert |-> Cert("Ed25519Signing", "ed-sign", 0, "ed-id"),
     ed25519_link_cert |->
         Cert("Ed25519Link", "peer-cert-hash", 0, "ed-sign"),
     ed25519_identity_cert |-> Cert("Ed25519Identity", "ed-id", 0, "rsa-1")]

\* The cells of the link handshake, in the order main exchanges them.
LinkHandshakeCells ==
    <<Tx("Versions"), Rx("Versions"), Rx("Certs"), Rx("AuthChallenge"),
      Tx("Certs"), Tx("Authenticate")>>

\* A circuit on an authenticated link: main in front of its call of
\* read_netinfo, the circuit as Circuit::new and read_certs leave it.
\* InitiatorCerts::new builds its keys with keys::RsaPrivateKey, which
\* keys.rs does not hold (its RsaKey cannot sign yet, so Spec ends in
\* send_certs_and_authenticate_cells); SpecHops takes main up where that
\* call has returned, the six cells of the link handshake exchanged.
InitHops ==
    /\ pc = "read_netinfo"
    /\ circ_id \in {NewCircId(v) : v \in RngValues}
    /\ used_circ_ids = {circ_id}
    /\ retries = RETRY_LIMIT
    /\ alloc = [state |-> "returned", before |-> {}, tries |-> 1,
                id |-> circ_id]
    /\ returned_ids = [id \in AllIds |-> IF id = circ_id THEN 1 ELSE 0]
    /\ responder_certs = Some(GoodCerts)
    /\ circuit_keys = <<>>
    /\ log = LinkHandshakeCells
    /\ checks = <<Check("certs-validate", TRUE, 3, 0)>>
    /\ panic = NoPanic
    /\ decoded_certs = None
    /\ authenticate_body = <<>>
    /\ layers = NoLayers
    /\ auth_challenge = Some(TRUE)
    /\ parser = NoParser
    /\ call = NoCall
    /\ requests = NoRequests

NextHops ==
    \/ read_netinfo
    \/ create_fast
    \/ extend_1
    \/ extend_2

SpecHops == InitHops /\ [][NextHops]_vars


---------------------------------------------------------------------------
(* Relay cells through a circuit of n hops: encrypt_cell_bytes and          *)
(* decrypt_cell_bytes applied to hop-key stacks, with relays that hold the  *)
(* same keys.                                                               *)

\* The most hops of a stack, and the most cells put through it.
MaxHops == 3
MaxCells == 2

\* The keys of hop i: KDF-TOR for the first hop, ntor for the others.
HopKeys(i) ==
    IF i = 1
    THEN tor_kdf(Nonce("x", 0), Nonce("y", 0),
                 HonestKH(Nonce("x", 0), Nonce("y", 0)))
    ELSE compute_ntor_keys(Whole(Base("rand", "key_seed", i, <<>>, 32)))

\* The hop-key stack of a circuit of n hops.
KeyStack(n) == [i \in 1..n |-> HopKeys(i)]

\* The bytes are one relay cell in the clear.
IsRelayCell(bytes) ==
    /\ Len(bytes) = 1
    /\ bytes[1].base.h = "relay-cell"
    /\ bytes[1].lo = 0
    /\ bytes[1].hi = bytes[1].base.len

\* The bytes are a relay cell with recognized = 0 whose digest field is
\* what the running digest gives for this cell.
Recognized(bytes, digest) ==
    /\ IsRelayCell(bytes)
    /\ bytes[1].base.v = digest.updates + 1
    /\ Len(bytes[1].base.in) >= Len(digest.seed)
    /\ SubSeq(bytes[1].base.in, 1, Len(digest.seed)) = digest.seed

\* The relays on a forward cell: relay i removes its layer and keeps the
\* cell if it recognizes it, else hands it to relay i + 1. at is the
\* relay that kept the cell, 0 if none did.
RECURSIVE RelayPeel(_, _, _)
RelayPeel(relays, i, bytes) ==
    IF i > Len(relays) THEN [relays |-> relays, at |-> 0, bytes |-> bytes]
    ELSE LET r == AesProcess(relays[i].forward_key, bytes)
             peeled == [relays EXCEPT ![i].forward_key = r.ctx]
         IN  IF Recognized(r.out, relays[i].forward_digest)
             THEN [relays |-> [peeled EXCEPT ![i].forward_digest.updates = @ + 1],
                   at |-> i, bytes |-> r.out]
             ELSE RelayPeel(peeled, i + 1, r.out)

\* Relays i, i-1, .. 1 each add their backward layer to a cell.
RECURSIVE RelayLayers(_, _, _)
RelayLayers(relays, i, bytes) ==
    IF i = 0 THEN [relays |-> relays, bytes |-> bytes]
    ELSE LET r == AesProcess(relays[i].backward_key, bytes)
         IN  RelayLayers([relays EXCEPT ![i].backward_key = r.ctx], i - 1, r.out)

\* A relay cell that is recognized = 0 but carries a digest of its own.
ForgedDigestCell(relay_command, data) ==
    Whole(Base("relay-cell", relay_command, 0,
               Lit("forged-digest", 20) \o data, PAYLOAD_LEN))

\* Relay `from` answers with a relay cell: with its running backward
\* digest if digest_ok, with a digest of its own making otherwise.
RelayAnswer(relays, from, relay_command, data, digest_ok) ==
    LET cell == RelayCellBytes(relay_command, data,
                               relays[from].backward_digest)
        plain == IF digest_ok THEN cell.out
                 ELSE ForgedDigestCell(relay_command, data)
        r == RelayLayers([relays EXCEPT ![from].backward_digest = cell.digest],
                         from, plain)
    IN  [relays |-> r.relays, bytes |-> r.bytes, cell |-> plain]

\* types::RelayCell::read_new: it is handed the bytes only, so a relay
\* cell parses whatever its digest; other bytes parse or not.
RelayCell_read_new(bytes, others_parse) ==
    IF IsRelayCell(bytes)
    THEN Ok([relay_command |-> bytes[1].base.s, bytes |-> bytes])
    ELSE IF others_parse
    THEN Ok([relay_command |-> "Unknown", bytes |-> bytes])
    ELSE Err("error reading relay cell")

\* The relay messages put through the stack.
LayerCommands == {"Extend2", "Data"}
AnswerCommands == {"Extended2", "Data"}
LayerData == Lit("hi", 2)

LayerUnchanged ==
    <<used_circ_ids, retries, alloc, returned_ids, circ_id, responder_certs,
      log, checks, decoded_certs, authenticate_body, auth_challenge, parser,
      call, requests>>

\* encrypt_cell_bytes on the stack; the relays then take the cell.
apply_encrypt_cell_bytes ==
    /\ pc = "relay"
    /\ layers.count < MaxCells
    /\ \E relay_command \in LayerCommands :
         LET enc == encrypt_cell_bytes(circuit_keys, relay_command, LayerData)
             peel == RelayPeel(layers.relays, 1, enc.bytes)
         IN  /\ circuit_keys' = enc.keys
             /\ layers' = [op |-> "sent", count |-> layers.count + 1,
                           relays |-> peel.relays, before |-> circuit_keys,
                           relays_before |-> layers.relays,
                           relay_command |-> relay_command,
                           data |-> LayerData, cell |-> enc.cell,
                           wire |-> enc.bytes, applied |-> enc.applied,
                           from |-> 0, at |-> peel.at, result |-> peel.bytes,
                           handed |-> None]
    /\ UNCHANGED <<pc, panic>>
    /\ UNCHANGED LayerUnchanged

\* decrypt_cell_bytes on the cell a relay answered with.
apply_decrypt_cell_bytes ==
    /\ pc = "relay"
    /\ layers.count < MaxCells
    /\ \E from \in 1..Len(circuit_keys), relay_command \in AnswerCommands,
          digest_ok \in BOOLEAN, others_parse \in BOOLEAN :
         LET answer == RelayAnswer(layers.relays, from, relay_command,
                                   LayerData, digest_ok)
             dec == decrypt_cell_bytes(circuit_keys, answer.bytes)
             relay_cell == RelayCell_read_new(dec.bytes, others_parse)
         IN  /\ circuit_keys' = dec.keys
             /\ layers' = [op |-> "received", count |-> layers.count + 1,
                           relays |-> answer.relays, before |-> circuit_keys,
                           relays_before |-> layers.relays,
                           relay_command |-> relay_command,
                           data |-> LayerData, cell |-> answer.cell,
                           wire |-> answer.bytes, applied |-> dec.applied,
                           from |-> from, at |-> 0, result |-> dec.bytes,
                           handed |-> IF relay_cell.ok
                                      THEN Some(relay_cell.value) ELSE None]
             /\ IF relay_cell.ok THEN UNCHANGED <<pc, panic>>
                ELSE Die(PanicUnwrap)
    /\ UNCHANGED LayerUnchanged

\* A circuit of 1 to MaxHops hops whose relays hold the same keys.
InitLayers ==
    /\ pc = "relay"
    /\ circ_id = HIGH_BIT
    /\ used_circ_ids = {circ_id}
    /\ retries = RETRY_LIMIT
    /\ alloc = [state |-> "returned", before |-> {}, tries |-> 1,
                id |-> circ_id]
    /\ returned_ids = [id \in AllIds |-> IF id = circ_id THEN 1 ELSE 0]
    /\ responder_certs = Some(GoodCerts)
    /\ circuit_keys \in {KeyStack(n) : n \in 1..MaxHops}
    /\ log = <<>>
    /\ checks = <<>>
    /\ panic = NoPanic
    /\ decoded_certs = None
    /\ authenticate_body = <<>>
    /\ layers = LayersIdle(circuit_keys)
    /\ auth_challenge = Some(TRUE)
    /\ parser = NoParser
    /\ call = NoCall
    /\ requests = NoRequests

NextLayers == apply_encrypt_cell_bytes \/ apply_decrypt_cell_bytes

SpecLayers == InitLayers /\ [][NextLayers]_vars

---------------------------------------------------------------------------
(* Circuit::extend called again and again on one circuit.                   *)

\* The most calls of extend on the circuit.
MaxExtends == 9

\* The RELAY_EARLY cells the circuit has sent.
RelayEarlySent ==
    Cardinality({i \in DOMAIN log : /\ log[i].dir = "tx"
                                     /\ log[i].command = "RelayEarly"})

\* One more call of extend, while the caller has made fewer than
\* MaxExtends.
extend ==
    /\ RelayEarlySent < MaxExtends
    /\ ExtendDrawing(Peers[2], "extend", "extend",
                     {SecretBytes(9, 65)}, {5})

\* A circuit whose first hop is made: create_fast has returned.
InitExtends ==
    /\ pc = "extend"
    /\ circ_id = HIGH_BIT
    /\ used_circ_ids = {circ_id}
    /\ retries = RETRY_LIMIT
    /\ alloc = [state |-> "returned", before |-> {}, tries |-> 1,
                id |-> circ_id]
    /\ returned_ids = [id \in AllIds |-> IF id = circ_id THEN 1 ELSE 0]
    /\ responder_certs = Some(GoodCerts)
    /\ circuit_keys = <<HopKeys(1)>>
    /\ log = LinkHandshakeCells \o NetinfoExchange("Netinfo")
                \o <<Tx("CreateFast"), Rx("CreatedFast")>>
    /\ checks = <<Check("certs-validate", TRUE, 3, 0),
                  Check("kh", TRUE, 10, 0)>>
    /\ panic = NoPanic
    /\ decoded_certs = None
    /\ authenticate_body = <<>>
    /\ layers = NoLayers
    /\ auth_challenge = Some(TRUE)
    /\ parser = NoParser
    /\ call = NoCall
    /\ requests = NoRequests

NextExtends == extend

SpecExtends == InitExtends /\ [][NextExtends]_vars

---------------------------------------------------------------------------
(* send_certs_and_authenticate_cells with an RSA identity key that signs.   *)

\* Circuit::send_certs_and_authenticate_cells where the initiator's RSA
\* key signs the Ed25519 identity key.
send_certs_and_authenticate_cells_signed ==
    SendCerts("RsaPrivateKey")

\* main in front of its call of send_certs_and_authenticate_cells: the
\* first four cells of the link handshake exchanged, the peer's certs
\* validated and stored.
InitAuth ==
    /\ pc = "send_certs_and_authenticate_cells"
    /\ circ_id \in {NewCircId(v) : v \in RngValues}
    /\ used_circ_ids = {circ_id}
    /\ retries = RETRY_LIMIT
    /\ alloc = [state |-> "returned", before |-> {}, tries |-> 1,
                id |-> circ_id]
    /\ returned_ids = [id \in AllIds |-> IF id = circ_id THEN 1 ELSE 0]
    /\ responder_certs = Some(GoodCerts)
    /\ circuit_keys = <<>>
    /\ log = SubSeq(LinkHandshakeCells, 1, 4)
    /\ checks = <<Check("certs-validate", TRUE, 3, 0)>>
    /\ panic = NoPanic
    /\ decoded_certs = None
    /\ authenticate_body = <<>>
    /\ layers = NoLayers
    /\ auth_challenge \in {Some(TRUE), Some(FALSE)}
    /\ parser = NoParser
    /\ call = NoCall
    /\ requests = NoRequests

\* main: circuit.send_certs_and_authenticate_cells(); circuit.read_netinfo();
NextAuth ==
    \/ send_certs_and_authenticate_cells_signed
    \/ read_netinfo

SpecAuth == InitAuth /\ [][NextAuth]_vars

---------------------------------------------------------------------------
(* Functions called on their own: RsaKey::new, tor_kdf and the scalar of    *)
(* ntor_handshake.                                                          *)

\* The key sizes RsaKey::new is asked for.
BitLens ==
    {0, 512, 1024, 2048, MAX_RSA_KEY_BITS - 1, MAX_RSA_KEY_BITS,
     MAX_RSA_KEY_BITS + 1, 2 * MAX_RSA_KEY_BITS}

CallUnchanged ==
    <<pc, used_circ_ids, retries, alloc, returned_ids, circ_id,
      responder_certs, circuit_keys, log, checks, panic, decoded_certs,
      authenticate_body, layers, auth_challenge, parser, requests>>

\* RsaKey::new(bit_len)
call_RsaKey_new ==
    /\ pc = "call"
    /\ \E bit_len \in BitLens, generates \in BOOLEAN :
         call' = [op |-> "RsaKey::new", input |-> bit_len,
                  result |-> RsaKey_new_generating(bit_len, generates)]
    /\ UNCHANGED CallUnchanged

\* tor_kdf(x, y, kh)
call_tor_kdf ==
    /\ pc = "call"
    /\ \E xv \in Nonces, yv \in Nonces, kh_honest \in BOOLEAN :
         LET x == Nonce("x", xv)
             y == Nonce("y", yv)
             kh == IF kh_honest THEN HonestKH(x, y) ELSE Lit("forged-kh", 20)
         IN  call' = [op |-> "tor_kdf", input |-> [x |-> x, y |-> y, kh |-> kh],
                      result |-> tor_kdf(x, y, kh)]
    /\ UNCHANGED CallUnchanged

\* The 32-byte client secrets ntor_handshake is called with: bytes 0, 15
\* and 31 vary.
ScalarBytes(first, middle, last) ==
    [i \in 1..32 |-> IF i = 1 THEN first ELSE IF i = 16 THEN middle
                     ELSE IF i = 32 THEN last ELSE 0]
ScalarInputs ==
    {ScalarBytes(first, middle, last) :
        first \in {0, 1, 7, 8, 9, 248, 255}, middle \in {0, 255},
        last \in {0, 63, 64, 65, 127, 128, 191, 255}}

\* ntor_handshake(.., client_x) up to EXP(Y,x) and EXP(B,x), for the Y of
\* a relay that drew 5 and the B of the second peer.
call_ntor_handshake ==
    /\ pc = "call"
    /\ \E client_x \in ScalarInputs :
         LET server_pk == curve25519_multiply(BasePoint, 5)
             server_B == get_ntor_key(Peers[2])
         IN  call' = [op |-> "ntor_handshake",
                      input |-> [server_pk |-> server_pk,
                                 server_B |-> server_B, client_x |-> client_x],
                      result |-> NtorSharedPoints(server_pk, server_B,
                                                  client_x)]
    /\ UNCHANGED CallUnchanged

\* No circuit, no tracker in use: a function is about to be called.
InitCalls ==
    /\ pc = "call"
    /\ used_circ_ids = {}
    /\ retries = RETRY_LIMIT
    /\ alloc = AllocIdle
    /\ returned_ids = [id \in AllIds |-> 0]
    /\ circ_id = NoCircuit
    /\ responder_certs = None
    /\ circuit_keys = <<>>
    /\ log = <<>>
    /\ checks = <<>>
    /\ panic = NoPanic
    /\ decoded_certs = None
    /\ authenticate_body = <<>>
    /\ layers = NoLayers
    /\ auth_challenge = None
    /\ parser = NoParser
    /\ call = NoCall
    /\ requests = NoRequests

NextCalls ==
    \/ call_RsaKey_new
    \/ call_tor_kdf
    \/ call_ntor_handshake

SpecCalls == InitCalls /\ [][NextCalls]_vars

---------------------------------------------------------------------------
(* TorParser: the events of another client's debug output, one per line     *)
(* (debug_dump_from_stdin).                                                 *)

\* The most keygen events of a run.
MaxKeygens == 2

\* The circuit ids of the cells decoded, and their commands: those with
\* an arm of their own that changes the parser, one that is only printed
\* (Netinfo, as are Certs and AuthChallenge) and one of the `_` arm.
ParserCircIds == {1, 2}
ParserCommands == {"Relay", "Netinfo", "Create2", "Created2", "Padding"}
Directions == {"Incoming", "Outgoing"}

\* HashMap::insert and HashMap::get on a map held as a function.
MapInsert(map, key, value) ==
    [k \in (DOMAIN map) \cup {key} |-> IF k = key THEN value ELSE map[k]]
MapGet(map, key) == IF key \in DOMAIN map THEN Some(map[key]) ELSE None

\* The NtorContext of the n-th keygen event: the second peer's id and B,
\* the client's X and x.
NtorContext(n) ==
    [keygen |-> n,
     router_id |-> get_node_id(Peers[2]),
     server_B |-> get_ntor_key(Peers[2]),
     client_X |-> get_public_key(SecretBytes(9, 65)),
     client_x |-> SecretBytes(9, 65)]

ParserUnchanged ==
    <<used_circ_ids, retries, alloc, returned_ids, circ_id, responder_certs,
      circuit_keys, log, checks, decoded_certs, authenticate_body, layers,
      auth_challenge, call, requests>>

\* TorParser::decode_keygen
decode_keygen ==
    /\ pc = "handle_event"
    /\ parser.keygens < MaxKeygens
    /\ \E hex_decoded \in BOOLEAN :
         IF ~hex_decoded
         THEN Die(PanicUnwrap) /\ UNCHANGED parser
         ELSE /\ parser' = [parser EXCEPT
                     !.pending_ntor_context =
                         Some(NtorContext(parser.keygens + 1)),
                     !.keygens = @ + 1,
                     !.event = "keygen", !.circ = 0, !.parsed = TRUE,
                     !.honest = FALSE, !.direction = "none"]
              /\ UNCHANGED <<pc, panic>>
    /\ UNCHANGED ParserUnchanged

\* do_ntor_handshake storing the keys of a handshake whose auth was not
\* compared.
DoNtorHandshakeUnchecked(circ, honest) ==
    LET found == MapGet(parser.ntor_contexts, circ) IN
    IF found = None THEN parser.circuit_keys
    ELSE LET ntor_context == found[1]
             result == NtorHandshakeIgnoresAuth(
                           ServerHandshake(Peers[2], 5, ntor_context.client_X,
                                           honest),
                           ntor_context.router_id, ntor_context.server_B,
                           ntor_context.client_X, ntor_context.client_x)
         IN  IF result.ok
             THEN MapInsert(parser.circuit_keys, circ, result.value)
             ELSE parser.circuit_keys

\* TorParser::do_ntor_handshake for the CREATED2 of a relay that drew 5;
\* honest says whether its auth is the right one.
do_ntor_handshake(circ, honest) ==
    LET found == MapGet(parser.ntor_contexts, circ) IN
    IF found = None THEN parser.circuit_keys
    ELSE LET ntor_context == found[1]
             result == ntor_handshake(
                           ServerHandshake(Peers[2], 5, ntor_context.client_X,
                                           honest),
                           ntor_context.router_id, ntor_context.server_B,
                           ntor_context.client_X, ntor_context.client_x)
         IN  IF result.ok
             THEN MapInsert(parser.circuit_keys, circ, result.value)
             ELSE parser.circuit_keys

\* decode_input, Create2: the pending context is bound without take().
BindPendingWithoutTake(tor_parser, circ) ==
    IF tor_parser.pending_ntor_context # None
    THEN [tor_parser EXCEPT
             !.ntor_contexts =
                 MapInsert(tor_parser.ntor_contexts, circ,
                           tor_parser.pending_ntor_context[1])]
    ELSE tor_parser

\* decode_input, Create2: if let Some(pending_ntor_context) =
\* self.pending_ntor_context.take() { self.ntor_contexts.insert(..) }
bind_pending_ntor_context(tor_parser, circ) ==
    IF tor_parser.pending_ntor_context # None
    THEN [tor_parser EXCEPT
             !.pending_ntor_context = None,
             !.ntor_contexts =
                 MapInsert(tor_parser.ntor_contexts, circ,
                           tor_parser.pending_ntor_context[1])]
    ELSE tor_parser

\* handle_encrypted_relay_cell running both ciphers over the payload.
HandleRelayCellBothCiphers(circ, direction) ==
    LET found == MapGet(parser.circuit_keys, circ) IN
    IF found = None THEN parser.circuit_keys
    ELSE LET keys == found[1]
             payload == Lit("cell-payload", PAYLOAD_LEN)
         IN  MapInsert(parser.circuit_keys, circ,
                 [keys EXCEPT
                     !.backward_key =
                         AesProcess(keys.backward_key, payload).ctx,
                     !.forward_key =
                         AesProcess(keys.forward_key, payload).ctx])

\* TorParser::handle_encrypted_relay_cell: the cipher of the direction
\* runs over the payload; the relay cell is printed, or the error.
handle_encrypted_relay_cell(circ, direction) ==
    LET found == MapGet(parser.circuit_keys, circ) IN
    IF found = None THEN parser.circuit_keys
    ELSE LET keys == found[1]
             payload == Lit("cell-payload", PAYLOAD_LEN)
         IN  MapInsert(parser.circuit_keys, circ,
                 IF direction = "Incoming"
                 THEN [keys EXCEPT !.backward_key =
                           AesProcess(keys.backward_key, payload).ctx]
                 ELSE [keys EXCEPT !.forward_key =
                           AesProcess(keys.forward_key, payload).ctx])

\* TorParser::decode_input, for the "read" and "write" events.
decode_input ==
    /\ pc = "handle_event"
    /\ \E cell_read \in BOOLEAN :
         IF ~cell_read
         THEN Die(PanicUnwrap) /\ UNCHANGED parser
         ELSE \E command \in ParserCommands, circ \in ParserCircIds,
                 parsed \in BOOLEAN :
              LET seen == [parser EXCEPT !.event = command, !.circ = circ,
                                         !.parsed = parsed, !.honest = FALSE,
                                         !.direction = "none"]
              IN
              IF command = "Relay"
              THEN \E direction \in Directions :
                   /\ parser.relay_cells < MaxCells
                   /\ parser' =
                          [seen EXCEPT
                              !.circuit_keys =
                                  handle_encrypted_relay_cell(circ, direction),
                              !.direction = direction,
                              !.parsed =
                                  /\ parsed
                                  /\ circ \in DOMAIN parser.circuit_keys,
                              !.relay_cells = @ + 1]
                   /\ UNCHANGED <<pc, panic>>
              ELSE IF command = "Create2" /\ parsed
              THEN \E handshake_parsed \in BOOLEAN :
                   IF ~handshake_parsed
                   THEN Die(PanicUnwrap) /\ UNCHANGED parser
                   ELSE /\ parser' = bind_pending_ntor_context(seen, circ)
                        /\ UNCHANGED <<pc, panic>>
              ELSE IF command = "Created2" /\ parsed
              THEN \E handshake_parsed \in BOOLEAN, honest \in BOOLEAN :
                   IF circ \in DOMAIN parser.ntor_contexts /\ ~handshake_parsed
                   THEN Die(PanicUnwrap) /\ UNCHANGED parser
                   ELSE /\ parser' =
                               [seen EXCEPT
                                   !.circuit_keys =
                                       do_ntor_handshake(circ, honest),
                                   !.honest = honest]
                        /\ UNCHANGED <<pc, panic>>
              ELSE /\ parser' = [seen EXCEPT
                                     !.parsed = parsed /\ command # "Padding"]
                   /\ UNCHANGED <<pc, panic>>
    /\ UNCHANGED ParserUnchanged

\* TorParser::handle_event for a line that is no keygen, read or write.
unknown_operation ==
    /\ pc = "handle_event"
    /\ parser' = [parser EXCEPT !.event = "unknown", !.circ = 0,
                                !.parsed = FALSE, !.honest = FALSE,
                                !.direction = "none"]
    /\ UNCHANGED <<pc, panic>>
    /\ UNCHANGED ParserUnchanged

\* debug_dump_from_stdin: a TorParser as TorParser::new builds it.
InitParser ==
    /\ pc = "handle_event"
    /\ used_circ_ids = {}
    /\ retries = RETRY_LIMIT
    /\ alloc = AllocIdle
    /\ returned_ids = [id \in AllIds |-> 0]
    /\ circ_id = NoCircuit
    /\ responder_certs = None
    /\ circuit_keys = <<>>
    /\ log = <<>>
    /\ checks = <<>>
    /\ panic = NoPanic
    /\ decoded_certs = None
    /\ authenticate_body = <<>>
    /\ layers = NoLayers
    /\ auth_challenge = None
    /\ parser = NoParser
    /\ call = NoCall
    /\ requests = NoRequests

\* TorParser::handle_event
NextParser ==
    \/ decode_keygen
    \/ decode_input
    \/ unknown_operation

SpecParser == InitParser /\ [][NextParser]_vars

---------------------------------------------------------------------------
(* Several circuits asking one CircuitIdTracker for their ids, their calls  *)
(* of get_new_circ_id interleaved pass by pass of the loop.                 *)

\* The circuits that ask, and the most passes of the loop one call makes.
MaxRequesters == 2
MaxTries == 3
Requesters == 1..MaxRequesters

\* `requests`: for each circuit where its call of get_new_circ_id stands
\* ("idle", "loop", "returned"), the call's own `retries`, and the id it
\* returned.
RequestIdle == [state |-> "idle", retries |-> RETRY_LIMIT, id |-> NoCircuit]

SharedUnchanged ==
    <<pc, retries, alloc, circ_id, responder_certs, circuit_keys, log, checks,
      panic, decoded_certs, authenticate_body, layers, auth_challenge, parser,
      call>>

\* A circuit enters get_new_circ_id: `let mut retries = RETRY_LIMIT`.
shared_get_new_circ_id_call ==
    /\ pc = "shared"
    /\ \E r \in Requesters :
         /\ requests[r].state = "idle"
         /\ requests' = [requests EXCEPT ![r].state = "loop",
                                         ![r].retries = RETRY_LIMIT]
    /\ UNCHANGED <<used_circ_ids, returned_ids>>
    /\ UNCHANGED SharedUnchanged

\* One pass of the loop of one circuit's call.
shared_get_new_circ_id_loop ==
    /\ pc = "shared"
    /\ \E r \in Requesters, v \in RngValues :
         LET b == LoopBody(used_circ_ids, requests[r].retries, v) IN
         /\ requests[r].state = "loop"
         /\ WhileRetries(requests[r].retries)
         /\ b.returns \/ RETRY_LIMIT - b.retries <= MaxTries
         /\ used_circ_ids' = b.used
         /\ IF b.returns
            THEN /\ requests' = [requests EXCEPT ![r].state = "returned",
                                                 ![r].id = b.id]
                 /\ returned_ids' = [returned_ids EXCEPT ![b.id] = @ + 1]
            ELSE /\ requests' = [requests EXCEPT ![r].retries = b.retries]
                 /\ UNCHANGED returned_ids
    /\ UNCHANGED SharedUnchanged

\* One tracker as CircuitIdTracker::new builds it, and the circuits that
\* will ask it.
InitShared ==
    /\ pc = "shared"
    /\ used_circ_ids = {}
    /\ retries = RETRY_LIMIT
    /\ alloc = AllocIdle
    /\ returned_ids = [id \in AllIds |-> 0]
    /\ circ_id = NoCircuit
    /\ responder_certs = None
    /\ circuit_keys = <<>>
    /\ log = <<>>
    /\ checks = <<>>
    /\ panic = NoPanic
    /\ decoded_certs = None
    /\ authenticate_body = <<>>
    /\ layers = NoLayers
    /\ auth_challenge = None
    /\ parser = NoParser
    /\ call = NoCall
    /\ requests = [r \in Requesters |-> RequestIdle]

NextShared == shared_get_new_circ_id_call \/ shared_get_new_circ_id_loop

SpecShared == InitShared /\ [][NextShared]_vars

---------------------------------------------------------------------------
(* Properties.                                                              *)

\* The highest bit of a circuit ID is set.
HasHighBit(id) == (id \div Pow2(IdBits - 1)) % 2 = 1

\* C1: for any sequence of get_new_circ_id calls on one tracker, no two
\* calls return the same circuit ID, and every ID handed out stays in the
\* used set (SpecAlloc).
NoIdReturnedTwice ==
    \A id \in AllIds :
        /\ returned_ids[id] <= 1
        /\ returned_ids[id] >= 1 => id \in used_circ_ids

\* C1, the case: two calls have returned, each its own ID.
TwoIdsReturned ==
    /\ alloc.state = "returned"
    /\ Cardinality({id \in AllIds : returned_ids[id] = 1}) >= 2

\* C2: every ID get_new_circ_id returns has the highest bit set and so is
\* not zero, whatever the random generator produced, and the circ_id of
\* the circuit main builds is that ID for as long as the circuit lives.
CircIdHighBit ==
    /\ \A id \in AllIds :
           returned_ids[id] > 0 => HasHighBit(id) /\ id # 0 /\ id >= HIGH_BIT
    /\ alloc.state = "returned" => HasHighBit(alloc.id) /\ alloc.id # 0
    /\ circ_id # NoCircuit =>
           circ_id = alloc.id /\ HasHighBit(circ_id) /\ circ_id # 0

\* C2, the case: the circuit exists and has lived to the end of its run.
CircuitLivedWithId ==
    /\ circ_id # NoCircuit
    /\ pc = "panicked"
    /\ Len(log) = 4

\* C3: when RETRY_LIMIT candidates in a row all collide with IDs in use,
\* get_new_circ_id fails (the panic that ends the caller), and the used
\* set is what it was when the call began; it fails in no other case.
ExhaustionFails ==
    /\ alloc.tries <= RETRY_LIMIT
    /\ alloc.state = "loop" =>
           alloc.tries < RETRY_LIMIT /\ used_circ_ids = alloc.before
    /\ alloc.state = "panicked" =>
           /\ alloc.tries = RETRY_LIMIT
           /\ used_circ_ids = alloc.before
           /\ panic = PanicExhausted
           /\ pc = "panicked"
    /\ (alloc.tries = RETRY_LIMIT /\ used_circ_ids = alloc.before) =>
           alloc.state = "panicked"

\* C3, the case: a call has drawn RETRY_LIMIT colliding candidates.
AllocatorExhausted ==
    /\ alloc.state = "panicked"
    /\ alloc.tries = RETRY_LIMIT

\* C4: the hop-key list grows by one exactly in a step whose CREATE_FAST
\* or EXTEND2 exchange succeeded (its KH or auth check passed), and in
\* every other step its length stays what it was.
HopKeysGrowOnlyOnSuccess ==
    [][/\ Len(circuit_keys') \in {Len(circuit_keys), Len(circuit_keys) + 1}
       /\ (Len(circuit_keys') = Len(circuit_keys) + 1) <=>
              (/\ Len(checks') = Len(checks) + 1
               /\ checks'[Len(checks')].what \in {"kh", "ntor-auth"}
               /\ checks'[Len(checks')].passed)]_vars

\* C5: when the KH of the CREATED_FAST cell differs from SHA1(X | Y | 0),
\* no hop keys are appended to the circuit.
KhMismatchAddsNoKeys ==
    \A i \in 1..Len(checks) :
        (checks[i].what = "kh" /\ ~checks[i].passed) =>
            Len(circuit_keys) = checks[i].hops

\* C6: when the auth of the EXTENDED2 reply differs from the auth computed
\* locally, no hop keys are appended and nothing more happens on the
\* circuit: no further EXTEND2 cell is sent.
NtorAuthFailureIsTerminal ==
    \A i \in 1..Len(checks) :
        (checks[i].what = "ntor-auth" /\ ~checks[i].passed) =>
            /\ Len(circuit_keys) = checks[i].hops
            /\ Len(log) = checks[i].cells

\* Every check of ResponderCerts::validate, on the certs themselves.
AllBindingsHold(rc) ==
    /\ rc.rsa_identity_cert.signer = rc.rsa_identity_cert.key
    /\ rc.ed25519_identity_cert.signer = rc.rsa_identity_cert.key
    /\ rc.rsa_identity_cert.bits = 1024
    /\ rc.ed25519_identity_cert.key = "ed-id"
    /\ rc.ed25519_signing_cert.signer = rc.ed25519_identity_cert.key
    /\ rc.ed25519_link_cert.signer = rc.ed25519_signing_cert.key
    /\ rc.ed25519_link_cert.key = "peer-cert-hash"

\* C7: responder_certs is set at most once, only in the step that reads
\* the peer's CERTS cell (after VERSIONS, with no AUTHENTICATE cell sent),
\* and only to certs that pass every validation check.
ResponderCertsSetOnce ==
    [][responder_certs' # responder_certs =>
          /\ responder_certs = None
          /\ pc = "read_certs"
          /\ log' = Append(log, Rx("Certs"))
          /\ \E i \in 1..Len(log) : log[i] = Rx("Versions")
          /\ \A i \in 1..Len(log') : log'[i] # Tx("Authenticate")
          /\ Len(responder_certs') = 1
          /\ AllBindingsHold(responder_certs'[1])]_vars

\* C7, the case: read_certs has stored the peer's certs.
ResponderCertsStored ==
    /\ responder_certs # None
    /\ Len(log) >= 3
    /\ log[3] = Rx("Certs")

\* C8: once the peer's CERTS payload fails to parse or to validate, no
\* further cell is read from or written to the connection.
CertsFailureIsTerminal ==
    \A i \in 1..Len(checks) :
        (/\ checks[i].what \in {"certs-parse", "certs-validate"}
         /\ ~checks[i].passed) =>
            Len(log) = checks[i].cells

\* The cells of a run in the order they cross the connection: the link
\* handshake, NETINFO both ways, CREATE_FAST and its answer, and one
\* EXTEND2 with its EXTENDED2 for each of the two further hops.
ExpectedOrder ==
    <<[dir |-> "tx", command |-> "Versions", relay |-> ""],
      [dir |-> "rx", command |-> "Versions", relay |-> ""],
      [dir |-> "rx", command |-> "Certs", relay |-> ""],
      [dir |-> "rx", command |-> "AuthChallenge", relay |-> ""],
      [dir |-> "tx", command |-> "Certs", relay |-> ""],
      [dir |-> "tx", command |-> "Authenticate", relay |-> ""],
      [dir |-> "rx", command |-> "Netinfo", relay |-> ""],
      [dir |-> "tx", command |-> "Netinfo", relay |-> ""],
      [dir |-> "tx", command |-> "CreateFast", relay |-> ""],
      [dir |-> "rx", command |-> "CreatedFast", relay |-> ""],
      [dir |-> "tx", command |-> "RelayEarly", relay |-> "Extend2"],
      [dir |-> "rx", command |-> "Relay", relay |-> "Extended2"],
      [dir |-> "tx", command |-> "RelayEarly", relay |-> "Extend2"],
      [dir |-> "rx", command |-> "Relay", relay |-> "Extended2"]>>

PaddingIsIgnored ==
    [][log' = Append(log, Rx("Padding")) =>
          pc' = pc /\ panic' = NoPanic]_vars

\* The AUTH_CHALLENGE cell has been read and decoded.
AuthChallengeRead ==
    /\ Len(log) >= 4
    /\ log[4] = Rx("AuthChallenge")
    /\ panic.msg # "error decoding AUTH_CHALLENGE cell"

\* C12: once responder_certs is populated and AUTH_CHALLENGE has been
\* read, send_certs_and_authenticate_cells leaves main only with the
\* CERTS cell and then the AUTHENTICATE cell written, in front of
\* read_netinfo, unless the connection refused a write.
LinkAuthenticationCompletes ==
    (/\ responder_certs # None
     /\ AuthChallengeRead
     /\ pc # "send_certs_and_authenticate_cells"
     /\ panic # PanicUnwrap) =>
        /\ pc = "read_netinfo"
        /\ Len(log) = 6
        /\ log[5] = Tx("Certs")
        /\ log[6] = Tx("Authenticate")


\* The forward layers of hops i .. n around a cell, hop i outermost, each
\* at the position its cipher stood at.
RECURSIVE ForwardNest(_, _, _)
ForwardNest(keys, i, bytes) ==
    IF i > Len(keys) THEN bytes
    ELSE Whole(Base("aes128-ctr", "", keys[i].forward_key.pos,
                    keys[i].forward_key.key \o ForwardNest(keys, i + 1, bytes),
                    PAYLOAD_LEN))

\* C13: encrypt_cell_bytes on n >= 1 hops builds a relay cell with
\* recognized = 0 whose digest comes from the running forward digest of
\* hop n, the last added, and of no other hop, and then applies the
\* forward ciphers of hops n, n-1, .., 1 in that order, each once.
OutboundLayeringOrder ==
    layers.op = "sent" =>
        LET n == Len(layers.before) IN
        /\ n >= 1
        /\ Recognized(layers.cell, layers.before[n].forward_digest)
        /\ layers.applied = [j \in 1..n |-> n + 1 - j]
        /\ layers.wire = ForwardNest(layers.before, 1, layers.cell)
        /\ Len(circuit_keys) = n
        /\ \A i \in 1..n :
             /\ circuit_keys[i].forward_key.key = layers.before[i].forward_key.key
             /\ circuit_keys[i].forward_key.pos =
                    layers.before[i].forward_key.pos + PAYLOAD_LEN
             /\ circuit_keys[i].forward_digest.seed =
                    layers.before[i].forward_digest.seed
             /\ circuit_keys[i].forward_digest.updates =
                    layers.before[i].forward_digest.updates
                    + (IF i = n THEN 1 ELSE 0)
             /\ circuit_keys[i].backward_key = layers.before[i].backward_key
             /\ circuit_keys[i].backward_digest = layers.before[i].backward_digest

\* A second cell has been layered for a circuit of at least two hops.
SecondCellLayered ==
    /\ layers.op = "sent"
    /\ layers.count = 2
    /\ Len(layers.before) >= 2
    /\ layers.before[1].forward_key.pos = PAYLOAD_LEN

\* The cell decrypt_cell_bytes was given is one relay `from` made with
\* its running backward digest.
GenuineAnswer ==
    /\ layers.op = "received"
    /\ Recognized(layers.cell, layers.relays_before[layers.from].backward_digest)

\* C14: decrypt_cell_bytes applies the backward ciphers from hop 1 on and
\* stops at the first hop that recognizes the cell; the ciphers of the
\* hops after it are not applied and do not advance.
InboundPeelingStops ==
    GenuineAnswer =>
        /\ layers.applied = [j \in 1..layers.from |-> j]
        /\ \A i \in (layers.from + 1)..Len(layers.before) :
             circuit_keys[i].backward_key = layers.before[i].backward_key

\* The cell after the backward layers of hops 1 .. i have been removed.
PeeledTo(i) ==
    DecryptLayers(SubSeq(layers.before, 1, i), 1, layers.wire, <<>>).bytes

\* No hop's layer shows a relay cell carrying that hop's running digest.
RecognizedAtNoHop ==
    /\ layers.op = "received"
    /\ \A i \in 1..Len(layers.before) :
         ~Recognized(PeeledTo(i), layers.relays_before[i].backward_digest)

\* C15: a received relay cell that no hop recognizes after every layer is
\* peeled ends the circuit and is not handed on as a relay cell.
UnrecognizedCellEndsCircuit ==
    RecognizedAtNoHop => pc = "panicked" /\ layers.handed = None

\* The relays and the client stand at the same key stream positions.
SameStreamPositions ==
    \A i \in 1..Len(layers.before) :
        /\ layers.before[i].forward_key.pos =
               layers.relays_before[i].forward_key.pos
        /\ layers.before[i].backward_key.pos =
               layers.relays_before[i].backward_key.pos

\* C16: with every hop at the client's key stream position, the relays
\* peeling the cell encrypt_cell_bytes made get the relay message back, at
\* hop n and at no hop before it; and decrypt_cell_bytes gets back the
\* relay message hop n answered with.
LayeringRoundTrip ==
    LET n == Len(layers.before) IN
    /\ layers.op = "sent" /\ SameStreamPositions =>
         /\ layers.at = n
         /\ layers.result = layers.cell
         /\ layers.result[1].base.s = layers.relay_command
         /\ SubSeq(layers.result[1].base.in,
                   Len(layers.before[n].forward_digest.seed) + 1,
                   Len(layers.result[1].base.in)) = layers.data
    /\ GenuineAnswer /\ layers.from = n /\ SameStreamPositions =>
         /\ layers.result = layers.cell
         /\ layers.handed # None
         /\ layers.handed[1].relay_command = layers.relay_command

\* A cell went out through three hops and reached the third.
CellReachedThirdHop ==
    /\ layers.op = "sent"
    /\ Len(layers.before) = 3
    /\ SameStreamPositions
    /\ layers.at = 3


\* C17: however often extend is called on a circuit, the circuit sends at
\* most 8 RELAY_EARLY cells.
RelayEarlyAtMostEight == RelayEarlySent <= 8


\* The length of one piece of a byte string.
PieceLen(piece) == piece.hi - piece.lo

CertKinds == {"RsaIdentity", "Ed25519Identity", "Ed25519Signing", "Ed25519Link"}

\* How many certs of a kind a cert list holds.
CountOfKind(certs, kind) ==
    Cardinality({i \in 1..Len(certs) : certs[i].type = kind})

\* The cert kind a failure reason of ResponderCerts::new names.
KindNamed(reason) ==
    CASE reason = "more than one RSA identity cert -> invalid CERTS cell"
             -> "RsaIdentity"
      [] reason = "no RSA identity cert" -> "RsaIdentity"
      [] reason = "no ed25519 signing cert" -> "Ed25519Signing"
      [] reason = "no ed25519 link cert" -> "Ed25519Link"
      [] reason = "no ed25519 identity cert" -> "Ed25519Identity"
      [] OTHER -> "none"

\* C19: ResponderCerts::new succeeds exactly when the cert list holds one
\* cert of each of the four kinds, and when it fails its reason names a
\* kind of which the list holds none or more than one.
ResponderCertsNewNamesKind ==
    decoded_certs # None =>
        LET certs == decoded_certs[1].certs
            new == decoded_certs[1].new
        IN  /\ new.ok <=> \A kind \in CertKinds : CountOfKind(certs, kind) = 1
            /\ ~new.ok => /\ KindNamed(new.err) \in CertKinds
                          /\ CountOfKind(certs, KindNamed(new.err)) # 1

\* C20: validate succeeds exactly when the RSA identity cert is
\* self-signed with a 1024-bit key, the RSA key signed the Ed25519
\* identity cert, the Ed25519 identity key is the expected one, it signed
\* the signing cert, the signing key signed the link cert, and the link
\* cert certifies the hash of the TLS peer certificate.
ValidateIffAllBindings ==
    (decoded_certs # None /\ decoded_certs[1].new.ok /\ pc # "read_certs") =>
        /\ Len(checks) >= 1
        /\ checks[Len(checks)].what = "certs-validate"
        /\ checks[Len(checks)].passed
               <=> AllBindingsHold(decoded_certs[1].new.value)
        /\ (responder_certs # None)
               <=> AllBindingsHold(decoded_certs[1].new.value)

\* validate has refused certs whose only flaw is an Ed25519 identity key
\* other than the expected one.
ValidateRefusedUnexpectedKey ==
    /\ decoded_certs # None
    /\ decoded_certs[1].new.ok
    /\ LET rc == decoded_certs[1].new.value IN
       /\ rc.rsa_identity_cert.signer = rc.rsa_identity_cert.key
       /\ rc.ed25519_identity_cert.signer = rc.rsa_identity_cert.key
       /\ rc.rsa_identity_cert.bits = 1024
       /\ rc.ed25519_identity_cert.key # "ed-id"
       /\ rc.ed25519_signing_cert.signer = rc.ed25519_identity_cert.key
       /\ rc.ed25519_link_cert.signer = rc.ed25519_signing_cert.key
       /\ rc.ed25519_link_cert.key = "peer-cert-hash"
    /\ checks # <<>>
    /\ ~checks[Len(checks)].passed
    /\ responder_certs = None


\* The reason of the first step that fails when the steps are taken in
\* the order 1 to 6: self-signed with a 1024-bit key, RSA cross-signature,
\* expected key, the two Ed25519 signatures, peer certificate.
FirstFailingStep(rc) ==
    IF rc.rsa_identity_cert.signer # rc.rsa_identity_cert.key
    THEN "RSA identity cert is not self-signed"
    ELSE IF rc.rsa_identity_cert.bits # 1024
    THEN "RSA identity key wrong size"
    ELSE IF rc.ed25519_identity_cert.signer # rc.rsa_identity_cert.key
    THEN "RSA identity cert did not sign Ed25519 identity cert"
    ELSE IF rc.ed25519_identity_cert.key # "ed-id"
    THEN "Ed25519 identity key does not match the expected key"
    ELSE IF rc.ed25519_signing_cert.signer # rc.ed25519_identity_cert.key
    THEN "Ed25519 identity key did not sign Ed25519 signing cert"
    ELSE IF rc.ed25519_link_cert.signer # rc.ed25519_signing_cert.key
    THEN "Ed25519 signing key did not sign Ed25519 link cert"
    ELSE IF rc.ed25519_link_cert.key # "peer-cert-hash"
    THEN "Ed25519 link key does not match peer certificate"
    ELSE "none"

\* C21: validate reports the reason of the first step that fails in the
\* order self-signed and key size, cross-signature, expected key, the two
\* Ed25519 signatures, peer certificate; certs failing both the key size
\* and the cross-signature are reported for the key size.
ValidateReportsFirstFailingStep ==
    (/\ decoded_certs # None
     /\ decoded_certs[1].new.ok
     /\ ~decoded_certs[1].validate.ok) =>
        decoded_certs[1].validate.err =
            FirstFailingStep(decoded_certs[1].new.value)


\* C22: RsaKey::new(bit_len) fails with the too-large error, and without
\* generating a key, exactly when bit_len > 16384; 16384 itself passes
\* this test.
RsaKeyTooLargeAboveCeiling ==
    call.op = "RsaKey::new" =>
        /\ (/\ ~call.result.result.ok
            /\ call.result.result.err = "specified RSA key size too large")
               <=> call.input > 16384
        /\ call.input > 16384 => ~call.result.generate_called
        /\ call.input <= 16384 => call.result.generate_called

\* RsaKey::new(16384) has returned a key.
RsaKeyAtCeilingGenerated ==
    /\ call.op = "RsaKey::new"
    /\ call.input = 16384
    /\ call.result.result.ok
    /\ call.result.generate_called


\* Bytes lo .. hi-1 of the block SHA1(x | y | [i]) of KDF-TOR.
KdfBlockPiece(x, y, i, lo, hi) ==
    [base |-> [h |-> "sha1", s |-> "", v |-> 0, in |-> x \o y \o Byte(i),
               len |-> 20],
     lo |-> lo, hi |-> hi]

\* C25: for KH = SHA1(X|Y|0x00), tor_kdf takes the hop keys from the 72
\* bytes after KH of SHA1(K0|0x00) | SHA1(K0|0x01) | ..: bytes 0-19 seed
\* the forward digest, 20-39 the backward digest, 40-55 are the forward
\* key, 56-71 the backward key; the rest of the fifth block is dropped and
\* the block with counter 0 is KH and nothing else.
KdfTorPartition ==
    (call.op = "tor_kdf"
     /\ call.input.kh = <<KdfBlockPiece(call.input.x, call.input.y, 0, 0, 20)>>)
    =>
        LET x == call.input.x
            y == call.input.y
            k == call.result
        IN  /\ k.forward_digest = [seed |-> <<KdfBlockPiece(x, y, 1, 0, 20)>>,
                                   updates |-> 0]
            /\ k.backward_digest = [seed |-> <<KdfBlockPiece(x, y, 2, 0, 20)>>,
                                    updates |-> 0]
            /\ k.forward_key = [key |-> <<KdfBlockPiece(x, y, 3, 0, 16)>>,
                                pos |-> 0]
            /\ k.backward_key = [key |-> <<KdfBlockPiece(x, y, 3, 16, 20),
                                           KdfBlockPiece(x, y, 4, 0, 12)>>,
                                 pos |-> 0]

\* tor_kdf has derived keys for an honest KH.
KdfTorCalledWithHonestKh ==
    /\ call.op = "tor_kdf"
    /\ call.input.kh = HonestKH(call.input.x, call.input.y)
    /\ BytesLen(call.result.backward_key.key) = 16

\* Bit k of a little-endian byte string.
BitOf(bytes, k) == (bytes[(k \div 8) + 1] \div Pow2(k % 8)) % 2

\* C26: the scalar ntor_handshake uses in EXP(Y,x) and in EXP(B,x) is the
\* client secret with bits 0, 1, 2 and 255 cleared and bit 254 set, every
\* other bit as in the secret; clamping it again changes nothing.
ScalarIsClamped ==
    call.op = "ntor_handshake" =>
        LET scalar == call.result.client_x
            x == ScalarFromBits(scalar, 32)
        IN  /\ \A k \in 0..255 :
                 BitOf(scalar, k) =
                     IF k \in {0, 1, 2, 255} THEN 0
                     ELSE IF k = 254 THEN 1
                     ELSE BitOf(call.input.client_x, k)
            /\ ClampScalar(scalar) = scalar
            /\ call.result.exp_Y_x = (call.input.server_pk * x) % GroupOrder
            /\ call.result.exp_B_x = (call.input.server_B * x) % GroupOrder

\* A secret with bits 0-2 and 255 set and bit 254 clear has been clamped.
UnclampedSecretClamped ==
    /\ call.op = "ntor_handshake"
    /\ call.input.client_x[1] = 255
    /\ call.input.client_x[32] = 191


\* C23: a circuit id comes to map to an NtorContext only by a CREATE2 on
\* that circuit, and once the CREATED2 of the circuit has been handled,
\* the handshake good or bad, it maps to none.
ContextEndsWithCreated2 ==
    [][/\ \A c \in (DOMAIN parser'.ntor_contexts) \ (DOMAIN parser.ntor_contexts) :
            parser'.event = "Create2" /\ parser'.circ = c
       /\ (parser'.event = "Created2" /\ parser'.parsed /\ pc' # "panicked")
            => parser'.circ \notin DOMAIN parser'.ntor_contexts]_vars

\* The keygen events whose context a parser holds bound to circuit ids.
BoundKeygens(tor_parser) ==
    {tor_parser.ntor_contexts[c].keygen : c \in DOMAIN tor_parser.ntor_contexts}

\* C30: the context of a keygen event is bound to at most one circuit id:
\* a CREATE2 takes the pending context, binds it to its circuit and leaves
\* none pending; a CREATE2 with none pending leaves the context map as it
\* was; a keygen puts its own context in the place of a pending one.
KeygenContextBoundOnce ==
    [][pc' # "panicked" =>
         /\ parser'.event = "keygen" =>
              /\ parser'.pending_ntor_context # None
              /\ parser'.pending_ntor_context[1].keygen = parser.keygens + 1
              /\ parser'.ntor_contexts = parser.ntor_contexts
         /\ (parser'.event = "Create2" /\ parser'.parsed) =>
              /\ parser'.pending_ntor_context = None
              /\ IF parser.pending_ntor_context = None
                 THEN parser'.ntor_contexts = parser.ntor_contexts
                 ELSE /\ DOMAIN parser'.ntor_contexts =
                             (DOMAIN parser.ntor_contexts) \cup {parser'.circ}
                      /\ parser'.ntor_contexts[parser'.circ] =
                             parser.pending_ntor_context[1]
                      /\ \A c \in (DOMAIN parser.ntor_contexts) \ {parser'.circ} :
                             parser'.ntor_contexts[c] = parser.ntor_contexts[c]
         /\ \A c, d \in DOMAIN parser'.ntor_contexts :
              c # d => parser'.ntor_contexts[c].keygen
                           # parser'.ntor_contexts[d].keygen
         /\ parser'.pending_ntor_context # None =>
              parser'.pending_ntor_context[1].keygen
                  \notin BoundKeygens(parser')]_vars

\* After one keygen, a second CREATE2, on another circuit, bound nothing.
SecondCreate2BoundNothing ==
    /\ parser.event = "Create2"
    /\ parser.parsed
    /\ parser.circ = 2
    /\ parser.keygens = 1
    /\ DOMAIN parser.ntor_contexts = {1}
    /\ parser.pending_ntor_context = None


\* C24: a relay cell the circuit sends updates the forward digest of the
\* hop it is addressed to, the last, and a relay cell it receives updates
\* the backward digest of the hop that made it, each by one cell.
HopDigestsFollowTraffic ==
    [][layers'.count = layers.count + 1 =>
         LET n == Len(circuit_keys) IN
         /\ layers'.op = "sent" =>
              circuit_keys'[n].forward_digest.updates =
                  circuit_keys[n].forward_digest.updates + 1
         /\ (/\ layers'.op = "received"
             /\ Recognized(layers'.cell,
                    layers'.relays_before[layers'.from].backward_digest)) =>
              circuit_keys'[layers'.from].backward_digest.updates =
                  circuit_keys[layers'.from].backward_digest.updates + 1]_vars

\* C29: encrypt_cell_bytes leaves every backward cipher and backward
\* digest and the forward digests of all hops but the last as they were
\* and advances every forward cipher by one cell; decrypt_cell_bytes
\* leaves every forward cipher and every digest as they were and advances
\* every backward cipher by one cell; the number of hops, circ_id and
\* responder_certs stay.
LayeringFrame ==
    [][layers'.count = layers.count + 1 =>
         LET n == Len(circuit_keys)
             Advanced(ctx) == [ctx EXCEPT !.pos = @ + PAYLOAD_LEN]
         IN
         /\ Len(circuit_keys') = n
         /\ circ_id' = circ_id
         /\ responder_certs' = responder_certs
         /\ layers'.op = "sent" =>
              \A i \in 1..n :
                  /\ circuit_keys'[i].backward_key = circuit_keys[i].backward_key
                  /\ circuit_keys'[i].backward_digest =
                         circuit_keys[i].backward_digest
                  /\ i # n => circuit_keys'[i].forward_digest =
                                  circuit_keys[i].forward_digest
                  /\ circuit_keys'[i].forward_key =
                         Advanced(circuit_keys[i].forward_key)
         /\ layers'.op = "received" =>
              \A i \in 1..n :
                  /\ circuit_keys'[i].forward_key = circuit_keys[i].forward_key
                  /\ circuit_keys'[i].forward_digest =
                         circuit_keys[i].forward_digest
                  /\ circuit_keys'[i].backward_digest =
                         circuit_keys[i].backward_digest
                  /\ circuit_keys'[i].backward_key =
                         Advanced(circuit_keys[i].backward_key)]_vars

\* decrypt_cell_bytes has run on a circuit of three hops.
CellPeeledThroughThreeHops ==
    /\ layers.op = "received"
    /\ Len(layers.before) = 3
    /\ circuit_keys[3].backward_key.pos >= PAYLOAD_LEN


KeysOnlyAfterAuthenticatedCreated2 ==
    [][LET before == parser.circuit_keys
           after == parser'.circuit_keys
       IN
       /\ DOMAIN after \subseteq DOMAIN parser'.ntor_contexts
       /\ \A id \in DOMAIN parser'.ntor_contexts \ DOMAIN parser.ntor_contexts :
            /\ parser'.event = "Create2"
            /\ parser'.circ = id
            /\ parser.pending_ntor_context # None
            /\ parser'.ntor_contexts[id] = parser.pending_ntor_context[1]
       /\ \A id \in DOMAIN after \ DOMAIN before :
            /\ parser'.event = "Created2"
            /\ parser'.circ = id
            /\ parser'.parsed
            /\ parser'.honest
            /\ id \in DOMAIN parser.ntor_contexts
       /\ (/\ parser'.event = "Created2"
           /\ \/ parser'.circ \notin DOMAIN parser.ntor_contexts
              \/ ~parser'.honest
              \/ ~parser'.parsed)
            => after = before]_vars

\* A CREATED2 with a wrong auth has been handled on a circuit that has a
\* context, and the parser holds no keys for it.
ForgedCreated2StoredNoKeys ==
    /\ parser.event = "Created2"
    /\ parser.parsed
    /\ ~parser.honest
    /\ parser.circ \in DOMAIN parser.ntor_contexts
    /\ parser.circ \notin DOMAIN parser.circuit_keys

\* C32: a relay cell on a circuit id without keys changes none of the
\* parser's fields; on an id with keys it advances the cipher of its
\* direction, backward for a cell read and forward for a cell written, by
\* the length of the payload and changes nothing else, whether or not the
\* decrypted bytes parse as a relay cell.
RelayCellAdvancesOneCipher ==
    [][parser'.relay_cells = parser.relay_cells + 1 =>
         LET id == parser'.circ
             Advanced(ctx) == [ctx EXCEPT !.pos = @ + PAYLOAD_LEN]
         IN
         /\ parser'.event = "Relay"
         /\ parser'.ntor_contexts = parser.ntor_contexts
         /\ parser'.pending_ntor_context = parser.pending_ntor_context
         /\ DOMAIN parser'.circuit_keys = DOMAIN parser.circuit_keys
         /\ \A other \in DOMAIN parser.circuit_keys \ {id} :
              parser'.circuit_keys[other] = parser.circuit_keys[other]
         /\ id \in DOMAIN parser.circuit_keys =>
              LET keys == parser.circuit_keys[id] IN
              parser'.circuit_keys[id] =
                  IF parser'.direction = "Incoming"
                  THEN [keys EXCEPT !.backward_key = Advanced(@)]
                  ELSE [keys EXCEPT !.forward_key = Advanced(@)]]_vars

\* A relay cell read on a circuit with keys did not parse once decrypted,
\* and the backward cipher of the circuit stands one payload further on.
UnparsedRelayCellKeptCipherAdvanced ==
    /\ parser.event = "Relay"
    /\ ~parser.parsed
    /\ parser.direction = "Incoming"
    /\ parser.circ \in DOMAIN parser.circuit_keys
    /\ parser.circuit_keys[parser.circ].backward_key.pos = PAYLOAD_LEN
    /\ parser.circuit_keys[parser.circ].forward_key.pos = 0

=============================================================================
